---- MODULE Spec2Model ----
(***************************************************************************)
(* Batch crawl orchestration and resumable progress of the Etsy section    *)
(* scraper: ScrapeProgress (load / save / set_total_found / clear), the    *)
(* paginated discovery extract_product_links, process_product with         *)
(* download_images_to_section and ImageNameTracker, and the two batch      *)
(* drivers: the CLI main loop with process_all_products, and the GUI       *)
(* ScraperWorker._scrape_sections.                                         *)
(***************************************************************************)
EXTENDS Integers, Sequences, FiniteSets, TLC

\* ------------------------------------------------------------------ bounds
MaxIds == 2
NumSections == 2
MaxRuns == 2
MaxPages == 2
MaxImages == 2
MaxClock == 2

\* the end-to-end scenario: a collection of E2ETotal items served
\* E2EPageSize to a page, and a first run that crashes when E2ECrashAfter
\* ids have been saved
E2ETotal == 41

E2EPageSize == 20

E2ECrashAfter == 15

\* the number of get_suffix calls made on one ImageNameTracker
MaxSuffixCalls == 3
MaxCallIds == 3         \* listing ids in a single call of extract_product_links
MaxCallCards == 2       \* cards on one served page of such a call
MaxCallPages == 3       \* pages served in such a call
MaxDirRuns == 4         \* runs of main over one output root
MaxWorkers == 2         \* ScraperWorkers started in one session of the App
MaxOps == 2             \* browser operations of one worker

\* ------------------------------------------------------- program constants
\* _started_at = None / total_pages = None / total_items = 0 (unknown)
NoTime == 0
NoPages == 0
max_length == 100
\* the floor of the wait between two items, in tenths of a second (1.0 s)
MinWait == 10

Ids == 1..MaxIds
Sections == 1..NumSections
MaxTotal == MaxIds + 1

\* ------------------------------------------------------------ basic helpers
Range(s) == {s[k] : k \in 1..Len(s)}

Min(a, b) == IF a <= b THEN a ELSE b

Max(a, b) == IF a >= b THEN a ELSE b

SetMin(S) == CHOOSE x \in S : \A y \in S : x <= y

RECURSIVE SetToSeq(_)
\* list(self._completed_ids): the set written out as a JSON array
SetToSeq(S) == IF S = {} THEN <<>> ELSE <<SetMin(S)>> \o SetToSeq(S \ {SetMin(S)})

SeqsUpTo(S, n) == UNION {[1..k -> S] : k \in 0..n}

\* a division that rounds down
FloorDiv(a, b) == a \div b

\* math.ceil(total_items / items_per_page), items_per_page > 0
CeilDiv(a, b) == (a + b - 1) \div b

\* ------------------------------------------------- the durable record file
\* {output_dir}/.progress.json.  kind:
\*   "absent"    no file
\*   "torn"      what an interrupted save leaves: open(progress_file, 'w')
\*               ran and json.dump did not finish, so the file is empty or
\*               a strict prefix of a record (not valid JSON)
\*   "nonobject" valid JSON that is not an object
\*   "badids"    an object whose completed_ids is not iterable
\*   "record"    a complete record as save() dumps it
FileOf(kind, ids, total, started, updated) ==
    [kind |-> kind, completed_ids |-> ids, total_found |-> total,
     started_at |-> started, updated_at |-> updated]

Absent == FileOf("absent", <<>>, 0, NoTime, NoTime)

Torn == FileOf("torn", <<>>, 0, NoTime, NoTime)

NonObject == FileOf("nonobject", <<>>, 0, NoTime, NoTime)

BadIds == FileOf("badids", <<>>, 0, NoTime, NoTime)

\* the in-memory fields of a ScrapeProgress
ProgressOf(ids, total, started) ==
    [completed_ids |-> ids, total_found |-> total, started_at |-> started]

\* ScrapeProgress.__init__
NewProgress == ProgressOf({}, 0, NoTime)

\* ScrapeProgress.load: the outcome on a file content f for an instance p.
\* raised = TRUE stands for the ValueError; p is then left as it was.
LoadRaises(f) == f.kind \in {"torn", "nonobject", "badids"}

\* a load that swallows the error and starts from nothing
LoadSwallowing(p, f) ==
    IF f.kind = "absent" \/ LoadRaises(f) THEN [raised |-> FALSE, ret |-> {}, p |-> p]
    ELSE LET ids == Range(f.completed_ids)
         IN [raised |-> FALSE, ret |-> ids,
             p |-> ProgressOf(ids, f.total_found, f.started_at)]

\* a load that empties the instance before it raises
LoadResetsOnRaise(p, f) ==
    IF f.kind = "absent" THEN [raised |-> FALSE, ret |-> {}, p |-> p]
    ELSE IF LoadRaises(f) THEN [raised |-> TRUE, ret |-> {}, p |-> NewProgress]
    ELSE LET ids == Range(f.completed_ids)
         IN [raised |-> FALSE, ret |-> ids,
             p |-> ProgressOf(ids, f.total_found, f.started_at)]

\* a load that reads only the first id of the record
LoadFirstOnly(p, f) ==
    IF f.kind = "absent" THEN [raised |-> FALSE, ret |-> {}, p |-> p]
    ELSE IF LoadRaises(f) THEN [raised |-> TRUE, ret |-> {}, p |-> p]
    ELSE LET ids == IF f.completed_ids = <<>> THEN {} ELSE {f.completed_ids[1]}
         IN [raised |-> FALSE, ret |-> ids,
             p |-> ProgressOf(ids, f.total_found, f.started_at)]

Load(p, f) ==
    IF f.kind = "absent" THEN [raised |-> FALSE, ret |-> {}, p |-> p]
    ELSE IF LoadRaises(f) THEN [raised |-> TRUE, ret |-> {}, p |-> p]
    ELSE LET ids == Range(f.completed_ids)
         IN [raised |-> FALSE, ret |-> ids,
             p |-> ProgressOf(ids, f.total_found, f.started_at)]

\* an in-memory update that keeps only the id just completed
SaveMemOnlyNew(p, id, t) ==
    ProgressOf({id}, p.total_found, IF p.started_at = NoTime THEN t ELSE p.started_at)

\* ScrapeProgress.save, first half: the in-memory update
SaveMem(p, id, t) ==
    ProgressOf(p.completed_ids \cup {id}, p.total_found,
               IF p.started_at = NoTime THEN t ELSE p.started_at)

\* a record whose updated_at is left unset
SaveDataNoUpdatedAt(p, t) ==
    FileOf("record", SetToSeq(p.completed_ids), p.total_found, p.started_at, NoTime)

\* ScrapeProgress.save, second half: the record json.dump writes
SaveData(p, t) ==
    FileOf("record", SetToSeq(p.completed_ids), p.total_found, p.started_at, t)

\* a set_total_found that starts the instance afresh
SetTotalFoundReset(p, n) == ProgressOf({}, n, NoTime)

\* ScrapeProgress.set_total_found
SetTotalFound(p, n) == [p EXCEPT !.total_found = n]

\* ScrapeProgress.clear on an instance p whose file holds f: the file is
\* unlinked and the fields are reset only when the file exists
Clear(p, f) ==
    IF f.kind # "absent" THEN [p |-> NewProgress, f |-> Absent]
    ELSE [p |-> p, f |-> f]

\* ScrapeProgress.completed_count
CompletedCount(p) == Cardinality(p.completed_ids)

\* the ids a durable file holds as completed (none when it is not a record)
DurableIds(f) == IF f.kind = "record" THEN Range(f.completed_ids) ELSE {}

\* ------------------------------------------------------------- discovery
\* a page scan that takes every card
NewIdsKeepAll(cards, seen) == cards

\* the cards of one served page that are not yet in seen_ids, in card order
\* (lines 303-309: a card already seen, on an earlier page or earlier on this
\* page, is skipped)
RECURSIVE NewIds(_, _)
NewIds(cards, seen) ==
    IF cards = <<>> THEN <<>>
    ELSE IF Head(cards) \in seen THEN NewIds(Tail(cards), seen)
    ELSE <<Head(cards)>> \o NewIds(Tail(cards), seen \cup {Head(cards)})

\* what the collaborator serves for page n: nothing beyond the last page
PageAt(pages, n) == IF n \in 1..Len(pages) THEN pages[n] ELSE <<>>

\* extract_product_links: the while loop from page current_page on.
\* pages: the cards served per page; fail_at: the page whose card extraction
\* raises (0: none).  Returns the ids, the number of pages fetched and
\* total_pages (NoPages for None).
RECURSIVE ExtractLoop(_, _, _, _, _, _)
ExtractLoop(pages, fail_at, total_items, current_page, all_listing_ids, total_pages) ==
    LET page_ids == NewIds(PageAt(pages, current_page), Range(all_listing_ids))
        all2 == all_listing_ids \o page_ids
        tp == IF current_page = 1 /\ total_items > 0 /\ page_ids # <<>>
              THEN CeilDiv(total_items, Len(page_ids))
              ELSE total_pages
    IN  IF fail_at = current_page
        THEN [ids |-> all_listing_ids, fetched |-> current_page, total_pages |-> total_pages]
        ELSE IF page_ids = <<>>
        THEN [ids |-> all2, fetched |-> current_page, total_pages |-> total_pages]
        ELSE IF current_page = 1 /\ total_items > 0 /\ tp <= 1
        THEN [ids |-> all2, fetched |-> current_page, total_pages |-> tp]
        ELSE IF tp # NoPages /\ current_page >= tp
        THEN [ids |-> all2, fetched |-> current_page, total_pages |-> tp]
        ELSE ExtractLoop(pages, fail_at, total_items, current_page + 1, all2, tp)

\* a discovery that reads every served page, whatever the pages hold
ExtractAllPages(pages, fail_at, total_items) ==
    LET RECURSIVE Gather(_, _)
        Gather(n, acc) ==
            IF n > Len(pages) THEN acc
            ELSE Gather(n + 1, acc \o NewIds(pages[n], Range(acc)))
    IN [ids |-> Gather(1, <<>>), fetched |-> Len(pages) + 1, total_pages |-> NoPages]

ExtractProductLinks(pages, fail_at, total_items) ==
    ExtractLoop(pages, fail_at, total_items, 1, <<>>, NoPages)

\* a filter that drops nothing
NotCompletedKeepAll(listing, completed) == listing

\* the pending-filter step: [lid for lid in listing_ids if lid not in completed_ids]
NotCompleted(listing, completed) ==
    SelectSeq(listing, LAMBDA lid : lid \notin completed)

\* CLI lines 1090-1093: filtered only when resume is on and something was loaded
PendingCli(listing, completed, res) ==
    IF res /\ completed # {} THEN NotCompleted(listing, completed) ELSE listing

\* GUI line 255: always filtered (completed_ids is empty without resume)
PendingGui(listing, completed) == NotCompleted(listing, completed)

\* ----------------------------------------------------- titles and names
\* A title is a sequence of tokens: words, the blank " ", and characters
\* that sanitize_filename replaces ("/") or strips (".", "_").
Titles == { <<"poster", "/">>, <<"canvas", " ", "poster">> }

NoTitle == <<>>

FilterChoices == { <<>>, <<"canvas">> }

UnsafeChars == {"<", ">", ":", "\"", "/", "\\", "|", "?", "*"}

StripChars == {" ", ".", "_"}

RECURSIVE RStrip(_, _)
RStrip(s, chars) ==
    IF s # <<>> /\ s[Len(s)] \in chars THEN RStrip(SubSeq(s, 1, Len(s) - 1), chars) ELSE s

RECURSIVE LStripBlank(_)
LStripBlank(s) == IF s # <<>> /\ Head(s) = " " THEN LStripBlank(Tail(s)) ELSE s

\* ' '.join(result.split()) on a text without leading blanks: no trailing
\* blank, no run of blanks
RECURSIVE JoinWords(_, _)
JoinWords(s, pending_blank) ==
    IF s = <<>> THEN <<>>
    ELSE IF Head(s) = " " THEN JoinWords(Tail(s), TRUE)
    ELSE (IF pending_blank THEN <<" ">> ELSE <<>>) \o <<Head(s)>> \o JoinWords(Tail(s), FALSE)

JoinSplit(s) == JoinWords(LStripBlank(s), FALSE)

\* utils.filter_title
filter_title(title, words) ==
    IF title = <<>> THEN <<"untitled">>
    ELSE IF words = <<>> THEN title
    ELSE LET removed == SelectSeq(title, LAMBDA tok : tok \notin Range(words))
             joined == JoinSplit(removed)
         IN IF joined = <<>> THEN <<"untitled">> ELSE joined

\* real_chrome_scraper.sanitize_filename
sanitize_filename(name) ==
    IF name = <<>> THEN <<"unnamed">>
    ELSE LET sanitized == [k \in 1..Len(name) |->
                             IF name[k] \in UnsafeChars THEN "_" ELSE name[k]]
             cut == RStrip(SubSeq(sanitized, 1, Min(Len(sanitized), max_length)), StripChars)
         IN IF cut = <<>> THEN <<"unnamed">> ELSE cut

\* download_images_to_section lines 558-562
SafeName(title, words) ==
    sanitize_filename(IF words # <<>> THEN filter_title(title, words) ELSE title)

SafeNames == {SafeName(t, w) : t \in Titles, w \in FilterChoices}

\* ImageNameTracker.__init__: a defaultdict(int)
NewNameCounts == [n \in SafeNames |-> 0]

\* a tracker that counts all names with one counter
get_suffix_one_counter(name_counts, product_name) ==
    LET count == CHOOSE c \in {name_counts[n] : n \in DOMAIN name_counts} :
                     \A m \in DOMAIN name_counts : name_counts[m] <= c
    IN [suffix |-> IF count = 0 THEN <<>> ELSE <<count>>,
        name_counts |-> [n \in DOMAIN name_counts |-> count + 1]]

\* a get_suffix that answers from the counter and forgets the call
get_suffix_forgetful(name_counts, product_name) ==
    [suffix |-> IF name_counts[product_name] = 0 THEN <<>>
                ELSE <<name_counts[product_name]>>,
     name_counts |-> name_counts]

\* ImageNameTracker.get_suffix: "" for the first use, "(count)" afterwards;
\* the suffix is modelled as <<>> or <<count>>
get_suffix(name_counts, product_name) ==
    [suffix |-> IF name_counts[product_name] = 0 THEN <<>>
                ELSE <<name_counts[product_name]>>,
     name_counts |-> [name_counts EXCEPT ![product_name] = @ + 1]]

\* ------------------------------------------------------ item processing
FetchOutcomes == {"ok", "http_error", "raise"}

\* image_selection: <<>> stands for None (all images)
Selections == { <<>>, <<1, MaxImages + 1>>, <<MaxImages + 1>> }

\* the (--images, --filter) settings of the batch runs: a selection with an
\* index no product has, together with a filter word that makes two titles
\* collide; and a selection of only such an index.  (The end-to-end scenario
\* runs with neither option; single calls take every combination.)
Configs == { << <<1, MaxImages + 1>>, <<"canvas">> >>,
             << <<MaxImages + 1>>, <<>> >> }

\* a download list that takes every image, whatever was selected
DownloadListAll(n_images, selection) == [k \in 1..n_images |-> k]

\* download_images_to_section lines 566-579: the (index, url) pairs to fetch
DownloadList(n_images, selection) ==
    IF selection # <<>>
    THEN SelectSeq(selection, LAMBDA k : 1 <= k /\ k <= n_images)
    ELSE [k \in 1..n_images |-> k]

\* the image URLs of a product with n_images images: URL k is that of the
\* k-th image
Images(n_images) == [k \in 1..n_images |-> k]

\* lines 566-579: each index of the download list with the URL it is paired
\* with, images[i-1] for a selected i and (i+1, url) for enumerate's i
DownloadPairs(n_images, selection) ==
    LET images == Images(n_images)
        download_list == DownloadList(n_images, selection)
    IN [m \in 1..Len(download_list) |-> <<download_list[m], images[download_list[m]]>>]

\* line 568: the selected indices no image has (the warning of line 571 is
\* printed when there are any)
SkippedIndices(n_images, selection) ==
    SelectSeq(selection, LAMBDA k : k > n_images)

\* a download loop that gives up at the first fetch that raises
RECURSIVE DownloadLoopAborting(_, _, _, _, _)
DownloadLoopAborting(pairs, fetch, m, attempted, written) ==
    IF m > Len(pairs) THEN [attempted |-> attempted, written |-> written]
    ELSE IF fetch[pairs[m][2]] = "raise"
    THEN [attempted |-> Append(attempted, pairs[m]), written |-> written]
    ELSE DownloadLoopAborting(pairs, fetch, m + 1, Append(attempted, pairs[m]),
                              IF fetch[pairs[m][2]] = "ok"
                              THEN written \cup {pairs[m][1]} ELSE written)

\* the loop of lines 586-611 from the m-th pair on: requests.get on the URL;
\* status 200 writes the file, another status does not, and an exception is
\* caught inside the loop body.  Returns the pairs attempted, in order, and
\* the indices whose file was written.
RECURSIVE DownloadLoop(_, _, _, _, _)
DownloadLoop(pairs, fetch, m, attempted, written) ==
    IF m > Len(pairs) THEN [attempted |-> attempted, written |-> written]
    ELSE DownloadLoop(pairs, fetch, m + 1, Append(attempted, pairs[m]),
                      IF fetch[pairs[m][2]] = "ok"
                      THEN written \cup {pairs[m][1]} ELSE written)

\* a download that asks the tracker for a suffix once per image
DownloadSuffixPerImage(n_images, title, counts, selection, words, fetch) ==
    IF n_images = 0 THEN [downloaded |-> 0, files |-> {}, name_counts |-> counts,
                          attempted |-> <<>>, skipped |-> <<>>]
    ELSE LET safe_name == SafeName(title, words)
             download_list == DownloadList(n_images, selection)
             ok == {k \in Range(download_list) : fetch[k] = "ok"}
             count(k) == counts[safe_name]
                         + Cardinality({m \in 1..Len(download_list) : download_list[m] < k})
         IN [downloaded |-> Cardinality(ok),
             files |-> {[name |-> safe_name, idx |-> k,
                         suffix |-> IF count(k) = 0 THEN <<>> ELSE <<count(k)>>] : k \in ok},
             name_counts |-> [counts EXCEPT ![safe_name] = @ + Len(download_list)],
             attempted |-> DownloadPairs(n_images, selection),
             skipped |-> SkippedIndices(n_images, selection)]

\* download_images_to_section: n_images urls of a product titled title;
\* fetch[k] is the outcome of requests.get / write_bytes for image k.
\* Returns the number downloaded (each one file written by write_bytes),
\* the names of those files and the tracker state.
DownloadImagesToSection(n_images, title, counts, selection, words, fetch) ==
    IF n_images = 0 THEN [downloaded |-> 0, files |-> {}, name_counts |-> counts,
                          attempted |-> <<>>, skipped |-> <<>>]
    ELSE LET safe_name == SafeName(title, words)
             sfx == get_suffix(counts, safe_name)
             loop == DownloadLoop(DownloadPairs(n_images, selection), fetch, 1, <<>>, {})
         IN [downloaded |-> Cardinality(loop.written),
             files |-> {[name |-> safe_name, idx |-> k, suffix |-> sfx.suffix] :
                           k \in loop.written},
             name_counts |-> sfx.name_counts,
             attempted |-> loop.attempted,
             skipped |-> SkippedIndices(n_images, selection)]

\* a loop that saves whatever process_product returned
OnResultAlwaysSave(ret) == "save"

\* a loop that tries a failed item again
OnResultRetry(ret) == IF ret THEN "save" ELSE "item"

\* the branch on process_product's result (CLI lines 800-807, GUI lines
\* 269-275): save after a success, straight to the end of the pass otherwise
OnResult(ret) == IF ret THEN "save" ELSE "next"

\* a process_product that succeeds as soon as the product has images
ProcessProductAnyImage(nav, title, n_images, counts, selection, words, fetch) ==
    IF nav = "raise" \/ title = NoTitle
    THEN [ret |-> FALSE, downloaded |-> 0, files |-> {}, name_counts |-> counts,
          attempted |-> <<>>, skipped |-> <<>>]
    ELSE LET d == DownloadImagesToSection(n_images, title, counts, selection, words, fetch)
         IN [ret |-> n_images > 0, downloaded |-> d.downloaded, files |-> d.files,
             name_counts |-> IF n_images = 0 THEN counts ELSE d.name_counts,
             attempted |-> d.attempted, skipped |-> d.skipped]

\* a process_product that takes a page without a title for a success
ProcessProductNoTitleOk(nav, title, n_images, counts, selection, words, fetch) ==
    IF nav = "raise"
    THEN [ret |-> FALSE, downloaded |-> 0, files |-> {}, name_counts |-> counts,
          attempted |-> <<>>, skipped |-> <<>>]
    ELSE IF title = NoTitle
    THEN [ret |-> TRUE, downloaded |-> 0, files |-> {}, name_counts |-> counts,
          attempted |-> <<>>, skipped |-> <<>>]
    ELSE IF n_images = 0
    THEN [ret |-> FALSE, downloaded |-> 0, files |-> {}, name_counts |-> counts,
          attempted |-> <<>>, skipped |-> <<>>]
    ELSE LET d == DownloadImagesToSection(n_images, title, counts, selection, words, fetch)
         IN [ret |-> d.downloaded > 0, downloaded |-> d.downloaded, files |-> d.files,
             name_counts |-> d.name_counts,
             attempted |-> d.attempted, skipped |-> d.skipped]

\* process_product: nav is "ok" or "raise" (driver.get / extraction raised),
\* title is NoTitle when no title was extracted.
ProcessProduct(nav, title, n_images, counts, selection, words, fetch) ==
    IF nav = "raise" \/ title = NoTitle
    THEN [ret |-> FALSE, downloaded |-> 0, files |-> {}, name_counts |-> counts,
          attempted |-> <<>>, skipped |-> <<>>]
    ELSE IF n_images = 0
    THEN [ret |-> FALSE, downloaded |-> 0, files |-> {}, name_counts |-> counts,
          attempted |-> <<>>, skipped |-> <<>>]
    ELSE LET d == DownloadImagesToSection(n_images, title, counts, selection, words, fetch)
         IN [ret |-> d.downloaded > 0, downloaded |-> d.downloaded, files |-> d.files,
             name_counts |-> d.name_counts,
             attempted |-> d.attempted, skipped |-> d.skipped]

\* ------------------------------------------- the output directories (CLI)
\* section_id values are strings, as parse_section_url returns them
SectionIds == {"1", "2"}

ShopName == <<"shop">>

\* the section names get_section_info may read for a section: a plain
\* name, a name with a character sanitize_folder_name replaces, and
\* "section", the value left when no name was found
SectionNames == { <<"canvas">>, <<"canvas", "/", "2">>, <<"section">> }

FolderUnsafeChars == {"/", "\\", ":", "*", "?", "\"", "<", ">", "|"}

RECURSIVE LStrip(_, _)
LStrip(s, chars) == IF s # <<>> /\ Head(s) \in chars THEN LStrip(Tail(s), chars) ELSE s

\* re.sub(r'_+', '_', result)
RECURSIVE CollapseUnderscores(_)
CollapseUnderscores(s) ==
    IF Len(s) < 2 THEN s
    ELSE IF s[1] = "_" /\ s[2] = "_" THEN CollapseUnderscores(Tail(s))
    ELSE <<Head(s)>> \o CollapseUnderscores(Tail(s))

\* section_scraper.sanitize_folder_name
sanitize_folder_name(name) ==
    LET replaced == [k \in 1..Len(name) |->
                        IF name[k] \in FolderUnsafeChars THEN "_" ELSE name[k]]
        stripped == RStrip(LStrip(replaced, {" "}), {" "})
        collapsed == CollapseUnderscores(stripped)
    IN RStrip(LStrip(collapsed, {"_"}), {"_"})

\* f"{name}_{section_id}"
WithId(name, section_id) == name \o <<"_", section_id>>

\* main, lines 1037-1041: the directory name from the section's name
SectionDirName(shop_name, section_id, section_name) ==
    IF section_name # <<>> /\ section_name # <<"section">>
    THEN sanitize_folder_name(section_name)
    ELSE WithId(shop_name, section_id)

\* every directory name a job may come to
DirNames ==
    LET first == {SectionDirName(ShopName, id, n) : id \in SectionIds, n \in SectionNames}
    IN first \cup {WithId(d, id) : d \in first, id \in SectionIds}

\* A directory under the output root: whether it exists, what its
\* .progress.json holds ("none": no file; "unreadable": a file json.load or
\* .get fails on; otherwise the record's section_id), and whether it holds
\* image files.
NoDir == [exists |-> FALSE, record |-> "none", images |-> FALSE]

\* a directory choice that never looks at the record in the candidate
OutputDirNameUnchecked(root, shop_name, section_id, section_name) ==
    SectionDirName(shop_name, section_id, section_name)

\* main, lines 1043-1056: the name-collision check on the candidate
OutputDirName(root, shop_name, section_id, section_name) ==
    LET candidate == SectionDirName(shop_name, section_id, section_name)
    IN IF /\ root[candidate].exists
          /\ root[candidate].record \notin {"none", "unreadable"}
          /\ root[candidate].record # section_id
       THEN WithId(candidate, section_id)
       ELSE candidate

\* a clear-progress that removes every record it finds
ClearProgressAll(root, requested) ==
    [d \in DOMAIN root |-> [root[d] EXCEPT !.record = "none"]]

\* main, lines 910-935: --clear-progress over the output root, for the
\* section ids of the URLs given
ClearProgress(root, requested) ==
    [d \in DOMAIN root |->
        IF root[d].exists /\ root[d].record \in requested
        THEN [root[d] EXCEPT !.record = "none"]
        ELSE root[d]]

\* ------------------------------------------------------ the App window
Workers == 1..MaxWorkers

\* App.__init__ and setup_ui: no worker, the start buttons enabled
NewGui ==
    [start_btn |-> "normal", stop_btn |-> "disabled", confirm_btn |-> "disabled",
     worker |-> 0,                          \* App.worker (0: None)
     w |-> [k \in Workers |-> "none"],      \* where each worker's thread is
     stop_flag |-> [k \in Workers |-> FALSE],
     user_confirmed |-> [k \in Workers |-> FALSE],
     ops |-> [k \in Workers |-> 0],         \* browser operations issued
     posted |-> <<>>,                       \* callbacks given to app.after(0, ...)
     reported |-> {},                       \* workers whose on_finished was posted
     executed |-> {},                       \* workers whose on_finished has run
     late |-> {}]                           \* workers that drove the browser after
                                            \* posting on_finished

\* a start_worker that leaves the start buttons enabled
StartWorkerButtonsLeftOn ==
    [start_btn |-> "normal", stop_btn |-> "normal", confirm_btn |-> "disabled"]

\* App.start_worker, lines 709-711
StartWorkerButtons ==
    [start_btn |-> "disabled", stop_btn |-> "normal", confirm_btn |-> "disabled"]

\* App.on_finished, lines 735-738
OnFinishedButtons ==
    [start_btn |-> "normal", stop_btn |-> "disabled", confirm_btn |-> "disabled"]

WithButtons(g, b) ==
    [g EXCEPT !.start_btn = b.start_btn, !.stop_btn = b.stop_btn,
              !.confirm_btn = b.confirm_btn]

\* self.app.after(0, lambda: self.app.on_finished(...)) by worker k.
\* from_except: the lambda of line 152, which reads the name `e` of the
\* except clause
PostOnFinished(g, k, from_except) ==
    [g EXCEPT !.posted = Append(@, [cb |-> "on_finished", worker |-> k,
                                    from_except |-> from_except]),
              !.reported = @ \cup {k},
              !.w[k] = "finally"]

\* ------------------------------------------------------------------ state
VARIABLES
    progress_file,      \* [Sections -> file content]: each job's .progress.json
    now,                \* the clock datetime.now reads
    run,                \* number of runs started so far
    mode,               \* "cli" (section_scraper.main) or "gui" (ScraperWorker)
    resume,             \* args.resume / self.resume
    image_selection,    \* parsed --images (<<>>: None)
    filter_words,       \* parsed --filter (<<>>: None)
    total_sections,     \* len(sections) / len(self.urls)
    pc,                 \* position of the single worker
    sec_idx,            \* index of the section being processed
    progress,           \* the in-memory ScrapeProgress of the current section
    completed_ids,      \* the local completed_ids (what load returned)
    listing_ids,        \* discovery result
    pending_ids,        \* ids to process
    i,                  \* 1-based index into pending_ids
    success_count,      \* process_all_products locals (CLI)
    fail_count,
    total_success,      \* run totals
    total_fail,
    total_skipped,
    sections_completed,
    name_counts,        \* ImageNameTracker.name_counts
    fetched,            \* number of pages the discovery just done fetched
    processed,          \* ids passed to process_product in the current section
    failed,             \* ids whose process_product returned False, current section
    hist,               \* current section: what load did and what the file held then
    replaced,           \* ids of the record the save in progress is overwriting
    run_succ,           \* per section: ids that returned Success in this run
    crash_good,         \* per section: ids the record held before the crash that
                        \* ended the previous run (empty after a run that ended)
    crash_succ,         \* per section: ids known to have returned Success before
                        \* that crash: those of crash_good and the id whose save
                        \* was pending or in progress
    crashed,            \* the previous run ended in a crash
    call,               \* a single process_product call: its arguments and result
    disk,               \* [Sections -> image files in the job's output directory],
                        \* each with the id of the item whose image it holds
    pass_files,         \* the image files written in the current pass over the
                        \* pending ids, each with the id of the item that wrote it
    stop_flag,          \* ScraperWorker._stop_flag
    stop_seen,          \* a check of _stop_flag in _scrape_sections found it set
    finished,           \* what on_finished showed at the end of the run
    stop_at,            \* where the run was when stop() set the flag, and the
                        \* ids the durable records held then
    urls,               \* the batch: for each section URL, how it is formed
    output_root,        \* the directories under --output: for each name, whether
                        \* it exists, the section_id its record holds, and
                        \* whether it holds image files
    gui,                \* the App window: its buttons, App.worker, the worker
                        \* threads and the callbacks posted with app.after
    began               \* the sections of the batch the run has taken up so far

vars == <<progress_file, now, run, mode, resume, image_selection, filter_words,
          total_sections, pc, sec_idx, progress, completed_ids, listing_ids,
          pending_ids, i, success_count, fail_count, total_success, total_fail,
          total_skipped, sections_completed, name_counts, fetched,
          processed, failed, hist, replaced, run_succ, crash_good, crash_succ,
          crashed, call, disk, pass_files, stop_flag, stop_seen, finished,
          stop_at, urls, output_root, gui, began>>

cfgVars == <<run, mode, resume, image_selection, filter_words, total_sections, urls,
            output_root, gui>>

totalVars == <<total_success, total_fail, total_skipped, sections_completed>>

stopVars == <<stop_flag, stop_seen, finished, stop_at>>

secVars == <<sec_idx, progress, completed_ids, hist>>

loopVars == <<listing_ids, pending_ids, i, success_count, fail_count, name_counts,
             fetched, processed, failed, replaced, pass_files>>

ghostVars == <<run_succ, crash_good, crash_succ, crashed>>

NewHist == [load |-> "none", loaded |-> {}, at_load |-> {}]

NoCall == [op |-> "none"]

\* stop() has not been called
NoStop == [pc |-> "none", sec_idx |-> 0, durable |-> <<>>]

\* nothing was reported (the CLI has no on_finished; a crashed run reports
\* nothing)
NoReport == [success |-> FALSE, message |-> "", label |-> "", dialog |-> ""]

\* ScraperApp.on_finished(success, message), gui.py lines 734-748.  The
\* messages are named by what they say: "done" is the text of line 282 with
\* its two counts, "user_cancelled" the text of line 133 (the one message
\* for which no error dialog is shown); the labels are "done" and "failed".
OnFinished(success, message) ==
    [success |-> success, message |-> message,
     label |-> IF success THEN "done" ELSE "failed",
     dialog |-> IF success THEN "showinfo"
                ELSE IF message = "user_cancelled" THEN "none" ELSE "showerror"]

\* the state before the first run: no progress file, nothing in memory
InitOn(modes, configs, n_sections, url_lists) ==
    /\ progress_file = [s \in Sections |-> Absent]
    /\ now = 1
    /\ run = 0
    /\ mode \in modes
    /\ resume = TRUE
    /\ \E c \in configs : image_selection = c[1] /\ filter_words = c[2]
    /\ total_sections = n_sections
    /\ pc = "idle"
    /\ sec_idx = 1
    /\ progress = NewProgress
    /\ completed_ids = {}
    /\ listing_ids = <<>>
    /\ pending_ids = <<>>
    /\ i = 1
    /\ success_count = 0
    /\ fail_count = 0
    /\ total_success = 0
    /\ total_fail = 0
    /\ total_skipped = 0
    /\ sections_completed = 0
    /\ name_counts = NewNameCounts
    /\ fetched = 0
    /\ processed = <<>>
    /\ failed = <<>>
    /\ hist = NewHist
    /\ replaced = {}
    /\ run_succ = [s \in Sections |-> {}]
    /\ crash_good = [s \in Sections |-> {}]
    /\ crash_succ = [s \in Sections |-> {}]
    /\ crashed = FALSE
    /\ call = NoCall
    /\ disk = [s \in Sections |-> {}]
    /\ pass_files = {}
    /\ stop_flag = FALSE
    /\ stop_seen = FALSE
    /\ finished = NoReport
    /\ stop_at = NoStop
    /\ urls \in url_lists
    /\ output_root = [d \in DirNames |-> NoDir]
    /\ gui = NewGui
    /\ began = {}

\* a batch of n well-formed section URLs
ValidUrls(n) == [s \in 1..n |-> "valid"]

InitWith(modes, configs, n_sections) ==
    InitOn(modes, configs, n_sections, {ValidUrls(n_sections)})

Init == InitWith({"cli", "gui"}, Configs, NumSections)

\* the locals of one section's pass, back to their values at loop entry
ResetLoop ==
    /\ listing_ids' = <<>>
    /\ pending_ids' = <<>>
    /\ i' = 1
    /\ success_count' = 0
    /\ fail_count' = 0
    /\ name_counts' = NewNameCounts
    /\ fetched' = 0
    /\ processed' = <<>>
    /\ failed' = <<>>
    /\ replaced' = {}
    /\ pass_files' = {}

\* a `continue` that takes the same section again
ContinueSameSection ==
    /\ sec_idx' = sec_idx
    /\ pc' = "section"
    /\ progress' = NewProgress
    /\ completed_ids' = {}
    /\ hist' = NewHist
    /\ ResetLoop

\* `continue`: on to the next section of the batch
Continue ==
    /\ sec_idx' = sec_idx + 1
    /\ pc' = "section"
    /\ progress' = NewProgress
    /\ completed_ids' = {}
    /\ hist' = NewHist
    /\ ResetLoop

\* what a run leaves behind: the process and its memory are gone, the files
\* stay, and time has passed before the next run starts
RunOver ==
    /\ pc' = "idle"
    /\ sec_idx' = 1
    /\ progress' = NewProgress
    /\ completed_ids' = {}
    /\ hist' = NewHist
    /\ ResetLoop
    /\ total_success' = 0
    /\ total_fail' = 0
    /\ total_skipped' = 0
    /\ sections_completed' = 0
    /\ run_succ' = [s \in Sections |-> {}]
    /\ now' = Min(now + 1, MaxClock)
    /\ resume' = TRUE
    /\ began' = {}
    /\ UNCHANGED <<run, mode, image_selection, filter_words, total_sections, call, disk,
                   stop_flag, stop_at, urls, output_root, gui>>

\* the run ends without a crash, with what on_finished is given (NoReport
\* in the CLI) and whether a stop check has found the flag set
RunEndsWith(report, seen) ==
    /\ RunOver
    /\ finished' = report
    /\ stop_seen' = seen
    /\ crashed' = FALSE
    /\ crash_good' = [s \in Sections |-> {}]
    /\ crash_succ' = [s \in Sections |-> {}]
    /\ UNCHANGED progress_file

\* the loop is over or left: the CLI's summary or sys.exit(0); in the GUI,
\* on_finished(True, "done ...") at the end of _scrape_sections (line 282)
RunEnds ==
    RunEndsWith(IF mode = "gui" THEN OnFinished(TRUE, "done") ELSE NoReport, stop_seen)

\* a run starts: main() / ScraperWorker._run up to the section loop.  The
\* front end, --images and --filter are the same in every run of a behaviour;
\* --resume / --no-resume is chosen anew.
StartRunOn(resumes) ==
    /\ pc = "idle"
    /\ run < MaxRuns
    /\ run' = run + 1
    /\ resume' \in resumes
    /\ pc' = "section"
    /\ sec_idx' = 1
    /\ stop_flag' = FALSE
    /\ stop_seen' = FALSE
    /\ finished' = NoReport
    /\ stop_at' = NoStop
    /\ UNCHANGED <<progress_file, now, mode, image_selection, filter_words, urls, output_root, gui,
                   total_sections, progress, completed_ids, hist, loopVars,
                   totalVars, ghostVars, call, disk, began>>

StartRun == StartRunOn(BOOLEAN)

\* the GUI's check of the stop flag finds it set (gui.py lines 213 and 264)
StopFlagSet == mode = "gui" /\ stop_flag

\* head of the section loop: navigation (for every section but the first)
\* and the construction of the section's ScrapeProgress
BeginSection ==
    /\ pc = "section"
    /\ sec_idx <= total_sections
    /\ ~StopFlagSet
    /\ urls[sec_idx] = "valid"
    /\ began' = began \cup {sec_idx}
    /\ \E nav_ok \in (IF sec_idx > 1 THEN BOOLEAN ELSE {TRUE}) :
          IF ~nav_ok
          THEN Continue
          ELSE /\ pc' = "load"
               /\ progress' = NewProgress
               /\ completed_ids' = {}
               /\ UNCHANGED <<sec_idx, hist, loopVars>>
    /\ UNCHANGED <<progress_file, now, cfgVars, totalVars, ghostVars, call, disk, stopVars>>

\* progress.load() when resume is on.  CLI: a ValueError ends this section
\* (`continue`).  GUI: the bare `except: pass` goes on with an empty set.
LoadProgress ==
    /\ pc = "load"
    /\ LET f == progress_file[sec_idx]
           r == Load(progress, f)
       IN IF ~resume
          THEN /\ hist' = [load |-> "off", loaded |-> {}, at_load |-> DurableIds(f)]
               /\ pc' = "discover"
               /\ UNCHANGED <<sec_idx, progress, completed_ids, loopVars>>
          ELSE IF r.raised
          THEN IF mode = "cli"
               THEN Continue
               ELSE /\ hist' = [load |-> "raised", loaded |-> {}, at_load |-> DurableIds(f)]
                    /\ pc' = "discover"
                    /\ UNCHANGED <<sec_idx, progress, completed_ids, loopVars>>
          ELSE /\ hist' = [load |-> IF f.kind = "absent" THEN "absent" ELSE "ok",
                           loaded |-> r.ret, at_load |-> DurableIds(f)]
               /\ progress' = r.p
               /\ completed_ids' = r.ret
               /\ pc' = "discover"
               /\ UNCHANGED <<sec_idx, loopVars>>
    /\ UNCHANGED <<progress_file, now, cfgVars, totalVars, ghostVars, call, disk, began, stopVars>>

PageChoices == SeqsUpTo(Ids, MaxIds)

\* the advertised totals the front end may pass: the CLI passes the count
\* get_section_info read (0 when it found none), the GUI passes none
TotalChoices == IF mode = "cli" THEN 0..MaxTotal ELSE {0}

\* extract_product_links(driver, url, total_items), then `if not listing_ids`.
\* served: the page sequences the collaborator may serve; failing: the pages
\* whose extraction may raise (0: none); totals: the advertised totals.
DiscoverOn(served, failing, totals) ==
    /\ pc = "discover"
    /\ \E pages \in served, fail_at \in failing, total_items \in totals :
          LET r == ExtractProductLinks(pages, fail_at, total_items)
          IN IF r.ids = <<>>
             THEN Continue
             ELSE /\ listing_ids' = r.ids
                  /\ fetched' = r.fetched
                  /\ pc' = "filter"
                  /\ UNCHANGED <<secVars, pending_ids, i, success_count, fail_count,
                                 name_counts, processed, failed, replaced, pass_files>>
    /\ UNCHANGED <<progress_file, now, cfgVars, totalVars, ghostVars, call, disk, began, stopVars>>

Discover == DiscoverOn(SeqsUpTo(PageChoices, MaxPages), 0..MaxPages, TotalChoices)

\* set_total_found and the pending-filter step; a section with nothing
\* pending is done at once.  The CLI asks for confirmation when the batch
\* has a single section: "n" exits the program.
FilterPendingOn(answers) ==
    /\ pc = "filter"
    /\ LET pend == IF mode = "cli"
                   THEN PendingCli(listing_ids, completed_ids, resume)
                   ELSE PendingGui(listing_ids, completed_ids)
           skipped_count == Len(listing_ids) - Len(pend)
       IN IF pend = <<>>
          THEN /\ sections_completed' =
                     IF mode = "cli" THEN sections_completed + 1 ELSE sections_completed
               /\ total_skipped' = IF mode = "cli" /\ resume /\ completed_ids # {}
                                   THEN total_skipped + skipped_count
                                   ELSE total_skipped
               /\ Continue
               /\ UNCHANGED <<progress_file, now, cfgVars, total_success, total_fail,
                              ghostVars, call, disk, began, stopVars>>
          ELSE \E confirm \in (IF mode = "cli" /\ total_sections = 1
                               THEN answers ELSE {"y"}) :
               IF confirm = "n"
               THEN RunEnds
               ELSE /\ total_skipped' = IF mode = "cli" /\ resume /\ completed_ids # {}
                                        THEN total_skipped + skipped_count
                                        ELSE total_skipped
                    /\ progress' = SetTotalFound(progress, Len(listing_ids))
                    /\ pending_ids' = pend
                    /\ i' = 1
                    /\ success_count' = 0
                    /\ fail_count' = 0
                    /\ name_counts' = NewNameCounts
                    /\ fetched' = 0
                    /\ pc' = "item"
                    /\ UNCHANGED <<sec_idx, completed_ids, hist, listing_ids, pass_files,
                                   processed, failed, replaced, sections_completed,
                                   progress_file, now, cfgVars, total_success,
                                   total_fail, ghostVars, call, disk, began, stopVars>>

FilterPending == FilterPendingOn({"y", "n"})

\* the files of one item, each with the id of the item that wrote it
Owned(files, listing_id) ==
    {[name |-> f.name, idx |-> f.idx, suffix |-> f.suffix, owner |-> listing_id] :
        f \in files}

\* filepath.write_bytes(resp.content), line 601: a file of the same name
\* in the directory is replaced
WriteBytes(dir, files, listing_id) ==
    {d \in dir : ~\E f \in files :
                    f.name = d.name /\ f.idx = d.idx /\ f.suffix = d.suffix}
        \cup Owned(files, listing_id)

\* what one item may meet: <<nav, title, n_images, fetch>>.  Navigation or
\* extraction raises, or the page has no title, or it has a title and
\* n_images image URLs whose fetches end as fetch says.
ItemInputs ==
    {<<"raise", NoTitle, 0, <<>>>>, <<"ok", NoTitle, 0, <<>>>>} \cup
    UNION { UNION { {<<"ok", title, n_images, fetch>> :
                        fetch \in [1..n_images -> FetchOutcomes]} :
                    n_images \in 0..MaxImages } : title \in Titles }

\* one pass of the item loop up to the call of save: process_product, then
\* the success or failure counter (CLI lines 800-807, GUI lines 269-275).
\* The output directory is followed when files_followed is TRUE, and what
\* the item met is kept in `call` when seen is TRUE.
ProcessItemSeen(inputs, files_followed, seen) ==
    /\ pc = "item"
    /\ ~StopFlagSet
    /\ \E inp \in inputs :
          LET listing_id == pending_ids[i]
              r == ProcessProduct(inp[1], inp[2], inp[3], name_counts,
                                  image_selection, filter_words, inp[4])
          IN /\ name_counts' = r.name_counts
             /\ processed' = Append(processed, listing_id)
             /\ pc' = OnResult(r.ret)
             /\ IF OnResult(r.ret) = "save"
                THEN /\ success_count' = IF mode = "cli" THEN success_count + 1 ELSE success_count
                     /\ total_success' = IF mode = "gui" THEN total_success + 1 ELSE total_success
                     /\ UNCHANGED <<fail_count, total_fail>>
                ELSE /\ fail_count' = IF mode = "cli" THEN fail_count + 1 ELSE fail_count
                     /\ total_fail' = IF mode = "gui" THEN total_fail + 1 ELSE total_fail
                     /\ UNCHANGED <<success_count, total_success>>
             /\ run_succ' = IF r.ret THEN [run_succ EXCEPT ![sec_idx] = @ \cup {listing_id}]
                            ELSE run_succ
             /\ failed' = IF r.ret THEN failed ELSE Append(failed, listing_id)
             /\ disk' = IF files_followed
                        THEN [disk EXCEPT ![sec_idx] = WriteBytes(@, r.files, listing_id)]
                        ELSE disk
             /\ pass_files' = IF files_followed
                              THEN pass_files \cup Owned(r.files, listing_id)
                              ELSE pass_files
             /\ call' = IF seen
                        THEN [op |-> "item", listing_id |-> listing_id, nav |-> inp[1],
                              title |-> inp[2], n_images |-> inp[3], ret |-> r.ret,
                              asked |-> 0, slept |-> 0]
                        ELSE call
    /\ UNCHANGED <<progress_file, now, cfgVars, secVars, listing_ids, pending_ids, i,
                   fetched, replaced, total_skipped, sections_completed, crash_good,
                   crash_succ, crashed, stopVars, began>>

ProcessItemWith(inputs, files_followed) == ProcessItemSeen(inputs, files_followed, FALSE)

ProcessItemOn(inputs) == ProcessItemWith(inputs, FALSE)

ProcessItem == ProcessItemOn(ItemInputs)

\* progress.save(listing_id), lines 102-119: the in-memory update, then
\* open(progress_file, 'w'), which leaves an empty file.  The local
\* completed_ids is the very set object load returned when it read a record
\* (line 83), so it sees the added id.
SaveOpen ==
    /\ pc = "save"
    /\ progress' = SaveMem(progress, pending_ids[i], now)
    /\ completed_ids' = IF hist.load = "ok" THEN progress'.completed_ids ELSE completed_ids
    /\ progress_file' = [progress_file EXCEPT ![sec_idx] = Torn]
    /\ replaced' = DurableIds(progress_file[sec_idx])
    /\ pc' = "dump"
    /\ UNCHANGED <<now, cfgVars, sec_idx, hist, listing_ids, pending_ids, i,
                   success_count, fail_count, name_counts, fetched, processed, pass_files,
                   failed, totalVars, ghostVars, call, disk, began, stopVars>>

\* progress.save(listing_id), line 120: json.dump completes and the file closes
SaveDump ==
    /\ pc = "dump"
    /\ progress_file' = [progress_file EXCEPT ![sec_idx] = SaveData(progress, now)]
    /\ replaced' = {}
    /\ pc' = "next"
    /\ UNCHANGED <<now, cfgVars, secVars, listing_ids, pending_ids, i, success_count,
                   fail_count, name_counts, fetched, processed, failed, pass_files,
                   totalVars, ghostVars, call, disk, began, stopVars>>

\* times are in tenths of a second.  --delay values (a float, 2.0 by
\* default) and what random.uniform(-0.5, 1.0) may give
Delays == {0, 20}

Jitters == {-5, 0, 10}

\* a wait without the floor
WaitTimeNoFloor(delay, jitter) == delay + jitter

\* lines 811-812: wait_time = max(1.0, delay + random.uniform(-0.5, 1.0))
WaitTime(delay, jitter) == Max(MinWait, delay + jitter)

\* the end of one pass of the item loop: the delay and the next item, or,
\* after the last item, the section's totals and completion status.  With
\* timed, the time slept is added to what `call` holds of the item.
NextItemTimed(timed) ==
    /\ pc = "next"
    /\ IF i < Len(pending_ids)
       THEN /\ i' = i + 1
            /\ pc' = "item"
            /\ \E delay \in Delays, jitter \in Jitters :
                  call' = IF timed
                          THEN [call EXCEPT !.asked = delay + jitter,
                                            !.slept = WaitTime(delay, jitter)]
                          ELSE call
            /\ UNCHANGED <<secVars, listing_ids, pending_ids, success_count, fail_count,
                           name_counts, fetched, processed, failed, replaced, pass_files,
                           totalVars>>
       ELSE /\ total_success' = IF mode = "cli" THEN total_success + success_count
                                ELSE total_success
            /\ total_fail' = IF mode = "cli" THEN total_fail + fail_count ELSE total_fail
            /\ sections_completed' =
                  IF mode = "cli" /\ CompletedCount(progress) = Len(listing_ids)
                  THEN sections_completed + 1 ELSE sections_completed
            /\ Continue
            /\ UNCHANGED <<total_skipped, call>>
    /\ UNCHANGED <<progress_file, now, cfgVars, ghostVars, disk, began, stopVars>>

NextItem == NextItemTimed(FALSE)

\* the section loop is exhausted: the summary, and the run ends
EndRun ==
    /\ pc = "section"
    /\ sec_idx > total_sections
    /\ RunEnds

\* the process dies (kill, power loss); the files keep what had reached
\* them (a torn file while save is between open and the end of json.dump)
CrashStep ==
    /\ RunOver
    /\ finished' = NoReport
    /\ stop_seen' = stop_seen
    /\ crashed' = TRUE
    /\ crash_good' = [s \in Sections |->
                         IF s = sec_idx /\ pc = "dump" THEN replaced
                         ELSE DurableIds(progress_file[s])]
    /\ crash_succ' = [s \in Sections |->
                         crash_good'[s] \cup
                         (IF s = sec_idx /\ pc \in {"save", "dump"}
                          THEN {pending_ids[i]} ELSE {})]
    /\ UNCHANGED progress_file

\* a crash at any point of a run
Crash ==
    /\ pc # "idle"
    /\ CrashStep

Next ==
    \/ StartRun
    \/ BeginSection
    \/ LoadProgress
    \/ Discover
    \/ FilterPending
    \/ ProcessItem
    \/ SaveOpen
    \/ SaveDump
    \/ NextItem
    \/ EndRun
    \/ Crash

Spec == Init /\ [][Next]_vars

\* ------------------------------------------------ single calls, in isolation
\* Everything but `call`
progVars == <<progress_file, now, run, mode, resume, image_selection, filter_words,
              total_sections, pc, sec_idx, progress, completed_ids, listing_ids,
              pending_ids, i, success_count, fail_count, total_success, total_fail,
              total_skipped, sections_completed, name_counts, fetched, processed,
              failed, hist, replaced, run_succ, crash_good, crash_succ, crashed,
              disk, pass_files, stop_flag, stop_seen, finished, stop_at, urls, output_root, gui,
              began>>

\* the file contents a load may meet
FileChoices ==
    {Absent, Torn, NonObject, BadIds} \cup
    {FileOf("record", ids, total, started, updated) :
        ids \in SeqsUpTo(Ids, MaxIds), total \in 0..MaxIds,
        started \in {NoTime, 1}, updated \in {1}}

\* the instances load may be called on: a fresh one (as both front ends
\* do) and one that has already saved an id
ProgressChoices == {NewProgress, ProgressOf({1}, 1, 1)}

\* one call of ScrapeProgress.load
LoadCall ==
    /\ call = NoCall
    /\ \E f \in FileChoices, p \in ProgressChoices :
          call' = [op |-> "load", file |-> f, before |-> p, out |-> Load(p, f)]
    /\ UNCHANGED progVars

\* one call of process_product
ProcessProductCall ==
    /\ call = NoCall
    /\ \E nav \in {"ok", "raise"}, title \in Titles \cup {NoTitle},
          n_images \in 0..MaxImages, selection \in Selections,
          words \in FilterChoices, counts \in [SafeNames -> 0..1] :
       \E fetch \in [1..n_images -> FetchOutcomes] :
          call' = [op |-> "process_product", nav |-> nav, title |-> title,
                   n_images |-> n_images, selection |-> selection, words |-> words,
                   counts |-> counts, fetch |-> fetch,
                   out |-> ProcessProduct(nav, title, n_images, counts, selection,
                                          words, fetch)]
    /\ UNCHANGED progVars

\* one more call of get_suffix on one ImageNameTracker: the names asked
\* for so far and the suffixes returned, in call order
GetSuffixCall ==
    /\ call = NoCall \/ call.op = "get_suffix"
    /\ LET counts == IF call = NoCall THEN NewNameCounts ELSE call.name_counts
           names == IF call = NoCall THEN <<>> ELSE call.names
           suffixes == IF call = NoCall THEN <<>> ELSE call.suffixes
       IN /\ Len(names) < MaxSuffixCalls
          /\ \E product_name \in SafeNames :
                LET r == get_suffix(counts, product_name)
                IN call' = [op |-> "get_suffix", name_counts |-> r.name_counts,
                            names |-> Append(names, product_name),
                            suffixes |-> Append(suffixes, r.suffix)]
    /\ UNCHANGED progVars

\* pages of 5, 5, 3 and 0 new ids
ScenarioSizes == <<5, 5, 3, 0>>

RECURSIVE SumTo(_, _)
SumTo(sizes, n) == IF n = 0 THEN 0 ELSE sizes[n] + SumTo(sizes, n - 1)

\* the cards served for ScenarioSizes: page p holds the next sizes[p] ids;
\* with overlap, every page after the first opens with the last card of the
\* page before it
ScenarioPages(overlap) ==
    [p \in 1..Len(ScenarioSizes) |->
        (IF overlap /\ p > 1 THEN <<SumTo(ScenarioSizes, p - 1)>> ELSE <<>>)
        \o [k \in 1..ScenarioSizes[p] |-> SumTo(ScenarioSizes, p - 1) + k]]

CallPageChoices == SeqsUpTo(1..MaxCallIds, MaxCallCards)

\* one call of extract_product_links
ExtractCall ==
    /\ call = NoCall
    /\ \E pages \in SeqsUpTo(CallPageChoices, MaxCallPages)
                     \cup {ScenarioPages(FALSE), ScenarioPages(TRUE)} :
       \E fail_at \in 0..MaxCallPages :
       \E total_items \in 0..(MaxCallIds + 1) :
          call' = [op |-> "extract", pages |-> pages, fail_at |-> fail_at,
                   total_items |-> total_items,
                   out |-> ExtractProductLinks(pages, fail_at, total_items)]
    /\ UNCHANGED progVars

\* what parse_image_selection can return for indices up to MaxImages + 1:
\* the sorted lists without repetition (utils.py line 66); <<>> selects all
CallSelections == {SetToSeq(S) : S \in SUBSET (1..(MaxImages + 1))}

\* a product with 6 images and the selection 1,3-5,8
ScenarioDownload == [n_images |-> 6, selection |-> <<1, 3, 4, 5, 8>>]

\* one call of download_images_to_section
DownloadCall ==
    /\ call = NoCall
    /\ \E c \in {[n_images |-> n, selection |-> sel] :
                     n \in 0..MaxImages, sel \in CallSelections}
                 \cup {ScenarioDownload} :
       \E title \in Titles, words \in FilterChoices, counts \in [SafeNames -> 0..1] :
       \E fetch \in [1..c.n_images -> FetchOutcomes] :
          /\ c = ScenarioDownload =>
                (title = <<"poster", "/">> /\ words = <<>> /\ counts = NewNameCounts)
          /\ call' = [op |-> "download", n_images |-> c.n_images, title |-> title,
                      selection |-> c.selection, words |-> words, counts |-> counts,
                      fetch |-> fetch,
                      out |-> DownloadImagesToSection(c.n_images, title, counts,
                                                      c.selection, words, fetch)]
    /\ UNCHANGED progVars

NextCalls ==
    \/ LoadCall
    \/ ProcessProductCall
    \/ GetSuffixCall
    \/ ExtractCall
    \/ DownloadCall

SpecCalls == Init /\ [][NextCalls]_vars

\* ------------------------------------------- the end-to-end scenario
\* the number of pages the collection fills
E2EServedPages ==
    CHOOSE n \in 1..E2ETotal : (n - 1) * E2EPageSize < E2ETotal /\ E2ETotal <= n * E2EPageSize

\* the cards served: ids 1..E2ETotal, E2EPageSize to a page
E2EPages ==
    [p \in 1..E2EServedPages |->
        [k \in 1..Min(E2EPageSize, E2ETotal - (p - 1) * E2EPageSize) |->
            (p - 1) * E2EPageSize + k]]

\* an item whose only image is fetched, and one whose only image fails
E2EItemOk == <<"ok", <<"poster", "/">>, 1, <<"ok">>>>

E2EItemFails == <<"ok", <<"poster", "/">>, 1, <<"http_error">>>>

\* the CLI on the one collection, no --images and no --filter
InitE2E == InitWith({"cli"}, { << <<>>, <<>> >> }, 1)

\* every run resumes
StartRunE2E == StartRunOn({TRUE})

\* the collection is served whole, with its advertised total
DiscoverE2E == DiscoverOn({E2EPages}, {0}, {E2ETotal})

\* the user confirms
FilterPendingE2E == FilterPendingOn({"y"})

\* the first run may meet one failing item; afterwards every item succeeds
ProcessItemE2E ==
    ProcessItemOn(IF run = 1 /\ failed = <<>> THEN {E2EItemOk, E2EItemFails}
                  ELSE {E2EItemOk})

\* the first run crashes at a point where the record holds E2ECrashAfter ids
CrashE2E ==
    /\ run = 1
    /\ pc \in {"item", "save", "next"}
    /\ Cardinality(DurableIds(progress_file[sec_idx])) = E2ECrashAfter
    /\ CrashStep

NextE2E ==
    \/ StartRunE2E
    \/ BeginSection
    \/ LoadProgress
    \/ DiscoverE2E
    \/ FilterPendingE2E
    \/ ProcessItemE2E
    \/ SaveOpen
    \/ SaveDump
    \/ NextItem
    \/ EndRun
    \/ CrashE2E

SpecE2E == InitE2E /\ [][NextE2E]_vars

\* ------------------------------------------ the output directory
\* One collection, both front ends, with the image files of its output
\* directory followed over the runs.

InitFiles == InitWith({"cli", "gui"}, Configs, 1)

\* every page of the collection is served in one piece, and no total is
\* advertised
DiscoverFiles == DiscoverOn({<<cards>> : cards \in PageChoices}, {0}, {0})

FilterPendingFiles == FilterPendingOn({"y"})

ProcessItemFiles == ProcessItemWith(ItemInputs, TRUE)

NextFiles ==
    \/ StartRun
    \/ BeginSection
    \/ LoadProgress
    \/ DiscoverFiles
    \/ FilterPendingFiles
    \/ ProcessItemFiles
    \/ SaveOpen
    \/ SaveDump
    \/ NextItem
    \/ EndRun
    \/ Crash

SpecFiles == InitFiles /\ [][NextFiles]_vars

\* ------------------------------------------------ the stop button
\* GUI runs in which the user may press the stop button at any moment.

InitStop == InitWith({"gui"}, Configs, NumSections)

\* start_worker and ScraperWorker._run up to the wait for the user
\* (gui.py lines 707-717, 110-128): a new worker, its flags not set
StartWorker ==
    /\ pc = "idle"
    /\ run < MaxRuns
    /\ run' = run + 1
    /\ resume' \in BOOLEAN
    /\ pc' = "wait"
    /\ sec_idx' = 1
    /\ stop_flag' = FALSE
    /\ stop_seen' = FALSE
    /\ finished' = NoReport
    /\ stop_at' = NoStop
    /\ UNCHANGED <<progress_file, now, mode, image_selection, filter_words, urls, output_root, gui,
                   total_sections, progress, completed_ids, hist, loopVars,
                   totalVars, ghostVars, call, disk, began>>

\* on_stop -> ScraperWorker.stop(), lines 729-732 and 100-101
Stop ==
    /\ pc # "idle"
    /\ ~stop_flag
    /\ stop_flag' = TRUE
    /\ stop_at' = [pc |-> pc, sec_idx |-> sec_idx,
                   durable |-> [s \in Sections |->
                                   IF s = sec_idx /\ pc = "dump" THEN replaced
                                   ELSE DurableIds(progress_file[s])]]
    /\ UNCHANGED <<progress_file, now, cfgVars, pc, secVars, loopVars, totalVars,
                   ghostVars, call, disk, began, stop_seen, finished>>

\* _run, lines 129-134: the wait ends when the user has confirmed or
\* stopped; a set stop flag ends the run with on_finished(False, "user_cancelled")
LeaveWait ==
    /\ pc = "wait"
    /\ IF stop_flag
       THEN RunEndsWith(OnFinished(FALSE, "user_cancelled"), stop_seen)
       ELSE /\ pc' = "section"
            /\ UNCHANGED <<progress_file, now, cfgVars, secVars, loopVars, totalVars,
                           ghostVars, call, disk, began, stopVars>>

\* `if self._stop_flag: break` at the head of the section loop (line 213):
\* the loop is left and line 282 reports on_finished(True, "done ...")
StopAtSection ==
    /\ pc = "section"
    /\ sec_idx <= total_sections
    /\ StopFlagSet
    /\ RunEndsWith(OnFinished(TRUE, "done"), TRUE)

\* `if self._stop_flag: break` in the item loop (line 264): the item loop
\* is left and the section loop goes to its next round
StopAtItem ==
    /\ pc = "item"
    /\ StopFlagSet
    /\ Continue
    /\ stop_seen' = TRUE
    /\ UNCHANGED <<progress_file, now, cfgVars, totalVars, ghostVars, call, disk, began,
                   stop_flag, finished, stop_at>>

DiscoverStop == DiscoverOn({<<cards>> : cards \in PageChoices}, {0}, {0})

NextStop ==
    \/ StartWorker
    \/ Stop
    \/ LeaveWait
    \/ StopAtSection
    \/ StopAtItem
    \/ BeginSection
    \/ LoadProgress
    \/ DiscoverStop
    \/ FilterPending
    \/ ProcessItem
    \/ SaveOpen
    \/ SaveDump
    \/ NextItem
    \/ EndRun

SpecStop == InitStop /\ [][NextStop]_vars

\* ------------------------------------------------ batches of URLs
\* Batches in which a section URL may be malformed.

\* how a URL is formed: "valid"; "bad_path" holds the text section_id= but
\* parse_section_url does not find /shop/{name} in its path; "no_section_id"
\* has no section_id parameter
UrlKinds == {"valid", "bad_path", "no_section_id"}

\* parse_section_url raises ValueError (section_scraper.py lines 213-227)
ParseSectionUrlRaises(url) == url # "valid"

\* the check of the URLs before any scraping.  CLI, main lines 889-902:
\* sys.exit(1) at the first URL parse_section_url rejects.  GUI,
\* start_section_scrape lines 668-673: an error box and return at the first
\* URL without the text section_id=.
BatchRejected ==
    \E s \in 1..total_sections :
        IF mode = "cli" THEN ParseSectionUrlRaises(urls[s])
        ELSE urls[s] = "no_section_id"

InitBatch ==
    InitOn({"cli", "gui"}, Configs, NumSections, [1..NumSections -> UrlKinds])

\* a run is asked for: it is refused at the check of the URLs, or it starts
StartBatch ==
    IF BatchRejected
    THEN /\ pc = "idle"
         /\ run < MaxRuns
         /\ run' = run + 1
         /\ UNCHANGED <<progress_file, now, mode, resume, image_selection, filter_words,
                        total_sections, urls, output_root, gui, pc, secVars, loopVars, totalVars,
                        ghostVars, call, disk, began, stopVars>>
    ELSE StartRun

\* the GUI's section loop at a URL parse_section_url rejects (gui.py lines
\* 216-220): `continue`
SkipInvalidUrl ==
    /\ pc = "section"
    /\ sec_idx <= total_sections
    /\ mode = "gui"
    /\ ~StopFlagSet
    /\ ParseSectionUrlRaises(urls[sec_idx])
    /\ Continue
    /\ UNCHANGED <<progress_file, now, cfgVars, totalVars, ghostVars, call, disk, began,
                   stopVars>>

DiscoverBatch == DiscoverOn({<<cards>> : cards \in PageChoices}, {0}, {0})

NextBatch ==
    \/ StartBatch
    \/ SkipInvalidUrl
    \/ BeginSection
    \/ LoadProgress
    \/ DiscoverBatch
    \/ FilterPending
    \/ ProcessItem
    \/ SaveOpen
    \/ SaveDump
    \/ NextItem
    \/ EndRun

SpecBatch == InitBatch /\ [][NextBatch]_vars

\* ------------------------------------------------ what each item met
\* Runs over one collection in which every pass of the item loop leaves in
\* `call` what the item met (navigation, title, images) and what
\* process_product returned.

InitItems == InitWith({"cli", "gui"}, Configs, 1)

ProcessItemItems == ProcessItemSeen(ItemInputs, FALSE, TRUE)

NextItemItems == NextItemTimed(TRUE)

NextItems ==
    \/ StartRun
    \/ BeginSection
    \/ LoadProgress
    \/ Discover
    \/ FilterPending
    \/ ProcessItemItems
    \/ SaveOpen
    \/ SaveDump
    \/ NextItemItems
    \/ EndRun

SpecItems == InitItems /\ [][NextItems]_vars

\* ------------------------------------------- the output root (CLI)
\* Jobs of the CLI for sections of one shop, one after another, over one
\* --output root, and runs with --clear-progress.  `call` names the last
\* job or clearing and what it did.

dirFrame == <<progress, progress_file, now, mode, resume, image_selection,
              filter_words, total_sections, pc, sec_idx, completed_ids, listing_ids,
              pending_ids, i, success_count, fail_count, total_success, total_fail,
              total_skipped, sections_completed, name_counts, fetched, processed,
              failed, hist, replaced, run_succ, crash_good, crash_succ, crashed,
              disk, pass_files, stop_flag, stop_seen, finished, stop_at, urls, began,
              gui>>

InitDirs == InitWith({"cli"}, Configs, 1)

\* how far a job gets: no item succeeds; the process dies after the first
\* image files and before save; it dies inside save; save completes
JobOutcomes == {"no_success", "cut_before_save", "save_cut_short", "saved"}

\* one pass of main's section loop for a section (lines 1030-1127), as far
\* as the output root sees it: the directory chosen and created, load()
\* when resume is on (a ValueError skips the section), then image files
\* and the record
SectionJob ==
    /\ run < MaxDirRuns
    /\ run' = run + 1
    /\ \E section_id \in SectionIds, section_name \in SectionNames,
          res \in BOOLEAN, outcome \in JobOutcomes :
          LET dir == OutputDirName(output_root, ShopName, section_id, section_name)
              before == output_root[dir]
              load_raises == res /\ before.record = "unreadable"
              works == ~load_raises /\ outcome # "no_success"
              writes == ~load_raises /\ outcome \in {"save_cut_short", "saved"}
          IN /\ output_root' =
                   [output_root EXCEPT ![dir] =
                       [exists |-> TRUE,
                        record |-> IF ~writes THEN before.record
                                   ELSE IF outcome = "saved" THEN section_id
                                   ELSE "unreadable",
                        images |-> before.images \/ works]]
             /\ call' = [op |-> "job", section_id |-> section_id, dir |-> dir,
                         loaded |-> IF res /\ before.record \in SectionIds
                                    THEN before.record ELSE "none",
                         wrote_over |-> IF writes THEN before.record ELSE "none"]
    /\ UNCHANGED dirFrame

\* a run of main with --clear-progress and URLs of the sections requested:
\* it ends at sys.exit(0), line 939, before Chrome is started
ClearProgressRun ==
    /\ run < MaxDirRuns
    /\ run' = run + 1
    /\ \E requested \in SUBSET SectionIds \ {{}} :
          /\ output_root' = ClearProgress(output_root, requested)
          /\ call' = [op |-> "clear_progress", requested |-> requested]
    /\ UNCHANGED dirFrame

NextDirs ==
    \/ SectionJob
    \/ ClearProgressRun

SpecDirs == InitDirs /\ [][NextDirs]_vars

\* ------------------------------------------- the App and its workers
\* The Tk main loop (button clicks, callbacks posted with app.after) and the
\* worker threads, interleaved.  A worker thread is at "launch" (Chrome
\* being started), "wait" (the wait for the user), "scrape" (driving the
\* browser), "finally" (on_finished posted, the finally clause of _run
\* ahead) or "ended".

guiFrame == <<progress, progress_file, now, run, mode, resume, image_selection,
              filter_words, total_sections, pc, sec_idx, completed_ids, listing_ids,
              pending_ids, i, success_count, fail_count, total_success, total_fail,
              total_skipped, sections_completed, name_counts, fetched, processed,
              failed, hist, replaced, run_succ, crash_good, crash_succ, crashed,
              disk, pass_files, stop_flag, stop_seen, finished, stop_at, urls, began,
              output_root, call>>

InitGui == InitWith({"gui"}, Configs, 1)

\* a click on a start button: start_product_scrape / start_section_scrape
\* with valid fields, then start_worker.  A disabled button takes no click.
ClickStart ==
    /\ gui.start_btn = "normal"
    /\ \E k \in Workers :
          /\ gui.w[k] = "none"
          /\ \A j \in Workers : j < k => gui.w[j] # "none"
          /\ gui' = [WithButtons(gui, StartWorkerButtons)
                        EXCEPT !.worker = k, !.w[k] = "launch"]
    /\ UNCHANGED guiFrame

\* on_stop
ClickStop ==
    /\ gui.stop_btn = "normal"
    /\ gui.worker # 0
    /\ gui' = [gui EXCEPT !.stop_flag[gui.worker] = TRUE]
    /\ UNCHANGED guiFrame

\* on_confirm
ClickConfirm ==
    /\ gui.confirm_btn = "normal"
    /\ gui.worker # 0
    /\ gui' = [gui EXCEPT !.user_confirmed[gui.worker] = TRUE,
                          !.confirm_btn = "disabled"]
    /\ UNCHANGED guiFrame

\* the main loop runs the next posted callback.  The lambda of line 152
\* reads `e`, which Python unbinds when the worker leaves its except
\* clause: run before that it calls on_finished, run after it raises
\* NameError and on_finished is not called.
RunCallback ==
    /\ gui.posted # <<>>
    /\ LET c == Head(gui.posted)
           rest == [gui EXCEPT !.posted = Tail(@)]
       IN IF c.cb = "on_chrome_ready"
          THEN gui' = [rest EXCEPT !.confirm_btn = "normal"]
          ELSE \E bound \in (IF c.from_except THEN BOOLEAN ELSE {TRUE}) :
                  gui' = IF bound
                         THEN [WithButtons(rest, OnFinishedButtons)
                                 EXCEPT !.executed = @ \cup {c.worker}]
                         ELSE rest
    /\ UNCHANGED guiFrame

\* _run, lines 112-128: Chrome is started; it comes up, or does not, or
\* start_chrome_with_debug raises
WorkerLaunch ==
    /\ \E k \in Workers :
          /\ gui.w[k] = "launch"
          /\ \E outcome \in {"ready", "not_ready", "raise"} :
                gui' = IF outcome = "ready"
                       THEN [gui EXCEPT !.w[k] = "wait",
                                        !.posted = Append(@, [cb |-> "on_chrome_ready",
                                                              worker |-> k,
                                                              from_except |-> FALSE])]
                       ELSE PostOnFinished(gui, k, outcome = "raise")
    /\ UNCHANGED guiFrame

\* _run, lines 129-144: the wait loop ends; a set stop flag cancels, else
\* the worker connects to Chrome (which may raise)
WorkerLeavesWait ==
    /\ \E k \in Workers :
          /\ gui.w[k] = "wait"
          /\ gui.user_confirmed[k] \/ gui.stop_flag[k]
          /\ IF gui.stop_flag[k]
             THEN gui' = PostOnFinished(gui, k, FALSE)
             ELSE \E connected \in BOOLEAN :
                     gui' = IF connected THEN [gui EXCEPT !.w[k] = "scrape"]
                            ELSE PostOnFinished(gui, k, TRUE)
    /\ UNCHANGED guiFrame

\* one operation on the browser session (driver.get, extraction) in
\* _scrape_products / _scrape_sections
WorkerBrowserOp ==
    /\ \E k \in Workers :
          /\ gui.w[k] = "scrape"
          /\ gui.ops[k] < MaxOps
          /\ gui' = [gui EXCEPT !.ops[k] = @ + 1,
                                !.late = IF k \in gui.reported THEN @ \cup {k} ELSE @]
    /\ UNCHANGED guiFrame

\* the scrape loop ends (exhausted, or the stop flag was seen) and posts
\* on_finished(True, ...) as its last statement (lines 205, 282); or an
\* exception reaches _run's except clause (line 152)
WorkerScrapeEnds ==
    /\ \E k \in Workers :
          /\ gui.w[k] = "scrape"
          /\ \E raised \in BOOLEAN : gui' = PostOnFinished(gui, k, raised)
    /\ UNCHANGED guiFrame

\* _run's finally clause: chrome_process.terminate(), and the thread ends
WorkerFinally ==
    /\ \E k \in Workers :
          /\ gui.w[k] = "finally"
          /\ gui' = [gui EXCEPT !.w[k] = "ended"]
    /\ UNCHANGED guiFrame

NextGui ==
    \/ ClickStart
    \/ ClickStop
    \/ ClickConfirm
    \/ RunCallback
    \/ WorkerLaunch
    \/ WorkerLeavesWait
    \/ WorkerBrowserOp
    \/ WorkerScrapeEnds
    \/ WorkerFinally

SpecGui == InitGui /\ [][NextGui]_vars

\* ------------------------------------------- one progress record
\* The ScrapeProgress instances of one output directory and the calls
\* made on them, in any order; `call` names the last call, the one before
\* it, and whether the instance has loaded a record.

jobVars == <<run, mode, resume, image_selection, filter_words, total_sections, pc,
             sec_idx, completed_ids, listing_ids, pending_ids, i, success_count,
             fail_count, total_success, total_fail, total_skipped,
             sections_completed, name_counts, fetched, processed, failed, hist,
             replaced, run_succ, crash_good, crash_succ, crashed, disk, pass_files,
             stop_flag, stop_seen, finished, stop_at, urls, began>>

objVars == <<jobVars, output_root, gui>>

InitProgress == InitWith({"cli"}, Configs, 1)

\* the call record after a call op(arg) on the instance.  ret is what the
\* call returned (load only); saved is the set the last save that ran to
\* its end held in memory as it dumped its record, for the directory
Called(op, arg, loaded) ==
    [op |-> op, arg |-> arg,
     prev_op |-> call.op, prev_arg |-> IF call = NoCall THEN 0 ELSE call.arg,
     loaded |-> loaded, ret |-> {},
     saved |-> IF call = NoCall THEN {} ELSE call.saved]

HasLoaded == call # NoCall /\ call.loaded

\* ScrapeProgress(output_dir, ...): a new instance for the directory, in the
\* same process or in a later one
NewInstanceCall ==
    /\ progress' = NewProgress
    /\ call' = Called("new", 0, FALSE)
    /\ UNCHANGED <<progress_file, now, objVars>>

\* progress.load()
LoadOnInstance ==
    /\ LET r == Load(progress, progress_file[1])
       IN /\ progress' = r.p
          /\ call' = [Called(IF r.raised THEN "load_raised" ELSE "load", 0,
                             HasLoaded \/ (~r.raised /\ progress_file[1].kind = "record"))
                          EXCEPT !.ret = r.ret]
    /\ UNCHANGED <<progress_file, now, objVars>>

\* progress.save(id), run to its end
SaveOnInstance ==
    /\ \E id \in Ids :
          /\ progress' = SaveMem(progress, id, now)
          /\ progress_file' = [progress_file EXCEPT ![1] = SaveData(progress', now)]
          /\ call' = [Called("save", id, HasLoaded)
                          EXCEPT !.saved = progress'.completed_ids]
    /\ UNCHANGED <<now, objVars>>

\* the process dies inside save, after open(progress_file, 'w'); the next
\* call is made on a new instance
SaveCutShort ==
    /\ progress_file' = [progress_file EXCEPT ![1] = Torn]
    /\ progress' = NewProgress
    /\ call' = Called("save_cut_short", 0, FALSE)
    /\ UNCHANGED <<now, objVars>>

\* progress.set_total_found(n)
SetTotalFoundCall ==
    /\ \E n \in 0..MaxTotal :
          /\ progress' = SetTotalFound(progress, n)
          /\ call' = Called("set_total_found", n, HasLoaded)
    /\ UNCHANGED <<progress_file, now, objVars>>

\* progress.clear()
ClearCall ==
    /\ LET r == Clear(progress, progress_file[1])
       IN /\ progress' = r.p
          /\ progress_file' = [progress_file EXCEPT ![1] = r.f]
    /\ call' = Called("clear", 0, FALSE)
    /\ UNCHANGED <<now, objVars>>

\* time passes: datetime.now never goes back
Tick ==
    /\ now < MaxClock
    /\ now' = now + 1
    /\ call' = Called("tick", 0, HasLoaded)
    /\ UNCHANGED <<progress, progress_file, objVars>>

NextProgress ==
    \/ NewInstanceCall
    \/ LoadOnInstance
    \/ SaveOnInstance
    \/ SaveCutShort
    \/ SetTotalFoundCall
    \/ ClearCall
    \/ Tick

SpecProgress == InitProgress /\ [][NextProgress]_vars

\* ===================================================================
\* Properties
\* ===================================================================
ItemPcs == {"item", "save", "dump", "next"}

\* the successes the run has counted so far (CLI: finished sections in
\* total_success, the current one in success_count; GUI: total_success)
RunSuccessCount == total_success + success_count

RECURSIVE DurableSuccesses(_)
\* the number of this run's successful ids that the durable records hold
DurableSuccesses(S) ==
    IF S = {} THEN 0
    ELSE LET s == SetMin(S)
         IN Cardinality(run_succ[s] \cap DurableIds(progress_file[s]))
            + DurableSuccesses(S \ {s})

\* the position of id in the sequence seq (0 when absent)
PosIn(seq, id) ==
    IF id \in Range(seq) THEN SetMin({k \in 1..Len(seq) : seq[k] = id}) ELSE 0

NoDuplicates(seq) == Cardinality(Range(seq)) = Len(seq)

\* C1: in every reachable state the number of successes the run has counted
\* is at most the number of this run's successful ids that are in the
\* durable records: the record is flushed before the counter moves.
C1_CounterWithinDurable == RunSuccessCount <= DurableSuccesses(Sections)

\* C2: in a run with resume that follows a crash, the load of a collection
\* returns every id its record held before the crash, and at most one item
\* that had returned Success before the crash is processed again.
C2_ResumeAfterCrash ==
    [][(crashed /\ resume /\ pc' # "idle") =>
          /\ (pc = "load" => crash_good[sec_idx] \subseteq completed_ids')
          /\ Cardinality(Range(processed') \cap crash_succ[sec_idx]) <= 1]_vars

\* C3: with resume on, the pending sequence holds exactly the discovered ids
\* that load did not return, in discovery order and once each; recomputing it
\* before any save gives the same sequence; and no loaded id is processed.
C3_PendingIsDiscoveredMinusLoaded ==
    (resume /\ pc \in ItemPcs) =>
        /\ Range(pending_ids) = Range(listing_ids) \ hist.loaded
        /\ NoDuplicates(pending_ids)
        /\ \A a, b \in 1..Len(pending_ids) :
              a < b => PosIn(listing_ids, pending_ids[a]) < PosIn(listing_ids, pending_ids[b])
        /\ (pc = "item" /\ i = 1) =>
              pending_ids = (IF mode = "cli"
                             THEN PendingCli(listing_ids, completed_ids, resume)
                             ELSE PendingGui(listing_ids, completed_ids))
        /\ Range(processed) \cap hist.loaded = {}

\* C3: a resumed collection with a loaded id that is skipped and another id
\* that is pending
C3_Witness ==
    /\ resume /\ pc = "item"
    /\ hist.loaded # {}
    /\ Len(pending_ids) < Len(listing_ids)
    /\ pending_ids # <<>>

\* C4: every complete record a save writes holds all the ids of the record
\* it replaces, whether the run resumes or not.
C4_RecordKeepsIds ==
    [][(pc = "dump" /\ pc' = "next") =>
          replaced \subseteq DurableIds(progress_file'[sec_idx])]_vars

\* C5: when load raises on the collection's record, the front end goes on to
\* the next collection at once: it processes no item of this collection and
\* leaves the file as it is.
C5_LoadFailureSkipsCollection ==
    [][/\ (pc = "load" /\ resume /\ LoadRaises(progress_file[sec_idx]) /\ pc' # "idle") =>
             (pc' = "section" /\ sec_idx' = sec_idx + 1 /\ progress_file' = progress_file)
       /\ (hist.load = "raised" /\ pc' # "idle") =>
             (processed' = <<>> /\ progress_file' = progress_file)]_vars

\* C6: load on a file that exists and cannot be read as a record raises; it
\* does not return the empty set.
C6_LoadRaisesOnUnparseable ==
    (call.op = "load" /\ call.file.kind \in {"torn", "nonobject", "badids"}) =>
        call.out.raised

\* C6: a load of a torn file has raised
C6_Witness ==
    /\ call.op = "load"
    /\ call.file.kind = "torn"
    /\ call.out.raised

\* the images process_product tries to fetch for a product with n_images
\* images under the selection (<<>>: all of them)
Attempted(n_images, selection) ==
    IF selection = <<>> THEN 1..n_images
    ELSE {k \in Range(selection) : 1 <= k /\ k <= n_images}

\* C7: process_product returns Success exactly when the call wrote at least
\* one image file; with no record, no title, no image, no valid selected
\* index or only failed fetches it returns Failure.
C7_SuccessIffImageWritten ==
    call.op = "process_product" =>
        LET tried == Attempted(call.n_images, call.selection)
            fetched_ok == {k \in tried : call.fetch[k] = "ok"}
        IN /\ call.out.ret <=> call.out.files # {}
           /\ call.out.ret <=>
                 (call.nav = "ok" /\ call.title # NoTitle /\ fetched_ok # {})
           /\ Cardinality(call.out.files) = call.out.downloaded

\* C7: a call that returned Success although one of its fetches failed, and
\* a file was written
C7_Witness ==
    /\ call.op = "process_product"
    /\ call.out.ret
    /\ \E k \in 1..call.n_images : call.fetch[k] # "ok"
    /\ call.out.files # {}

C9_EachPendingIdAtMostOnce ==
    pc \in ItemPcs =>
        /\ NoDuplicates(processed)
        /\ Len(processed) = (IF pc = "item" THEN i - 1 ELSE i)
        /\ \A k \in 1..Len(processed) :
              k <= Len(pending_ids) /\ processed[k] = pending_ids[k]
        /\ NoDuplicates(failed)
        /\ Range(failed) \subseteq Range(processed)
        /\ mode = "cli" => fail_count = Len(failed)
        /\ (mode = "gui" /\ sec_idx = 1) => total_fail = Len(failed)

\* C9: two items processed, the first of them failed, and the loop went on
C9_Witness ==
    /\ pc = "next"
    /\ Len(processed) = 2
    /\ failed = <<processed[1]>>

\* what the scenario expects of the pages, the resumed run and the record
E2EExpect(pages, remaining, total) ==
    /\ pc = "filter" => (fetched = pages /\ Len(listing_ids) = total)
    /\ (run = 2 /\ crashed /\ pc \in ItemPcs) =>
          /\ Len(pending_ids) = remaining
          /\ Range(pending_ids) = Range(listing_ids) \ crash_good[sec_idx]
    /\ (run = 2 /\ crashed /\ pc = "section" /\ sec_idx > total_sections) =>
          /\ total_success = remaining
          /\ total_fail = 0
          /\ Cardinality(DurableIds(progress_file[1])) = total
          /\ DurableIds(progress_file[1]) = 1..total

\* C10: discovery of the collection fetches as many pages as the collection
\* fills (3 for 41 items, 20 to a page); a run that resumes after a crash
\* which left a record of E2ECrashAfter ids processes exactly the other ids
\* (26 of 41 after 15) and, all of them succeeding, leaves a record with
\* every id (41).
C10_EndToEnd ==
    /\ E2EExpect(E2EServedPages, E2ETotal - E2ECrashAfter, E2ETotal)
    /\ (E2ETotal = 41 /\ E2EPageSize = 20 /\ E2ECrashAfter = 15) => E2EExpect(3, 26, 41)

\* C10: the resumed run has finished after processing the remaining items
C10_Witness ==
    /\ run = 2 /\ crashed
    /\ pc = "section" /\ sec_idx > total_sections
    /\ total_success = E2ETotal - E2ECrashAfter
    /\ Cardinality(DurableIds(progress_file[1])) = E2ETotal

\* C11: on one tracker, the k-th call of get_suffix for a name returns no
\* suffix when k = 1 and the suffix "(k-1)" when k > 1, whatever calls for
\* other names come in between.
C11_KthCallSuffix ==
    call.op = "get_suffix" =>
        \A j \in 1..Len(call.names) :
            LET k == Cardinality({m \in 1..j : call.names[m] = call.names[j]})
            IN call.suffixes[j] = (IF k = 1 THEN <<>> ELSE <<k - 1>>)

\* C11: a name asked for a second time after a call for another name
C11_Witness ==
    /\ call.op = "get_suffix"
    /\ Len(call.names) = 3
    /\ call.names[1] = call.names[3]
    /\ call.names[2] # call.names[1]
    /\ call.suffixes = << <<>>, <<>>, <<1>> >>

RECURSIVE SumCounts(_, _)
\* the number of get_suffix calls a tracker state has seen for the names S
SumCounts(counts, S) ==
    IF S = {} THEN 0
    ELSE LET n == CHOOSE x \in S : TRUE
         IN counts[n] + SumCounts(counts, S \ {n})

\* C12: process_product calls get_suffix once for an item that has a title
\* and at least one image and not at all otherwise, and every image file of
\* the item carries the suffix that one call returned.
C12_OneSuffixPerItem ==
    call.op = "process_product" =>
        LET before == call.counts
            after == call.out.name_counts
            calls == SumCounts(after, DOMAIN after) - SumCounts(before, DOMAIN before)
        IN /\ DOMAIN after = DOMAIN before
           /\ \A n \in DOMAIN before : after[n] >= before[n]
           /\ calls = (IF call.nav = "ok" /\ call.title # NoTitle /\ call.n_images > 0
                       THEN 1 ELSE 0)
           /\ \A f \in call.out.files :
                 /\ after[f.name] = before[f.name] + 1
                 /\ f.suffix = (IF before[f.name] = 0 THEN <<>> ELSE <<before[f.name]>>)
           /\ \A f, g \in call.out.files : f.name = g.name /\ f.suffix = g.suffix

\* C12: an item whose name was used once before wrote two image files
C12_Witness ==
    /\ call.op = "process_product"
    /\ Cardinality(call.out.files) = 2
    /\ \A f \in call.out.files : f.suffix = <<1>>

\* two file records with the same output file name
SameFile(f, g) == f.name = g.name /\ f.idx = g.idx /\ f.suffix = g.suffix

\* C13: within one pass over one collection's pending ids, the files of
\* two distinct items never have the same (name, image index, suffix), even
\* when the sanitized display names of the items are equal.
C13_DistinctItemsDistinctFiles ==
    \A f, g \in pass_files : SameFile(f, g) => f.owner = g.owner

\* C13: two items with the same sanitized display name each wrote the image
\* of the same index in one pass
C13_Witness ==
    \E f, g \in pass_files :
        f.owner # g.owner /\ f.name = g.name /\ f.idx = g.idx

\* C14: in a run resumed into the same output directory, an image file of
\* an item that the loaded record lists as completed is never replaced by a
\* file written for a different item.
C14_CompletedFilesKept ==
    [][\A d \in disk[sec_idx] : d.owner \in hist.loaded => d \in disk'[sec_idx]]_vars

\* the ids of the cards of pages 1..n of a call
IdsUpTo(pages, n) == UNION {Range(PageAt(pages, m)) : m \in 1..n}

\* the first page of a call that contributes no new id (the page after the
\* last served page at the latest)
FirstEmptyPage(pages) ==
    SetMin({n \in 1..(Len(pages) + 1) :
               Range(PageAt(pages, n)) \subseteq IdsUpTo(pages, n - 1)})

\* C15: discovery never fetches a page after the first page that
\* contributes zero new ids; with no known total and no failure it fetches
\* exactly up to that page and returns exactly the distinct ids of the
\* pages before it, so pages of 5, 5, 3 and 0 new ids give 13 ids from
\* four fetched pages.
C15_StopsAtFirstEmptyPage ==
    call.op = "extract" =>
        LET z == FirstEmptyPage(call.pages)
        IN /\ call.out.fetched <= z
           /\ call.out.fetched = z =>
                 /\ Range(call.out.ids) = IdsUpTo(call.pages, z - 1)
                 /\ Len(call.out.ids) = Cardinality(IdsUpTo(call.pages, z - 1))
           /\ call.total_items = 0 /\ call.fail_at = 0 => call.out.fetched = z
           /\ (call.total_items = 0 /\ call.fail_at = 0
               /\ call.pages \in {ScenarioPages(FALSE), ScenarioPages(TRUE)})
              => call.out.ids = [k \in 1..13 |-> k] /\ call.out.fetched = 4

\* C15: the pages of 5, 5, 3 and 0 new ids were read without a known total
C15_Witness ==
    /\ call.op = "extract"
    /\ call.pages = ScenarioPages(TRUE)
    /\ call.total_items = 0
    /\ call.fail_at = 0
    /\ Len(call.out.ids) = 13
    /\ call.out.fetched = 4

\* C16: whatever total is advertised, and without a failure, the returned
\* ids contain every id of every page up to the first page that contributes
\* zero new ids.
C16_TotalNeverCutsShort ==
    (call.op = "extract" /\ call.fail_at = 0) =>
        IdsUpTo(call.pages, FirstEmptyPage(call.pages)) \subseteq Range(call.out.ids)

\* the position of the first occurrence of id on the pages of a call, in
\* reading order (page, then card)
FirstSeen(pages, id) ==
    LET n == SetMin({m \in 1..Len(pages) : id \in Range(pages[m])})
    IN <<n, SetMin({k \in 1..Len(pages[n]) : pages[n][k] = id})>>

Earlier(a, b) == a[1] < b[1] \/ (a[1] = b[1] /\ a[2] < b[2])

\* C17: the returned sequence holds no id twice and lists the ids in the
\* order of their first appearance on the pages, whatever the overlap
\* between pages.
C17_DistinctInFirstAppearanceOrder ==
    call.op = "extract" =>
        LET ids == call.out.ids
        IN /\ NoDuplicates(ids)
           /\ \A a, b \in 1..Len(ids) :
                 a < b => Earlier(FirstSeen(call.pages, ids[a]),
                                  FirstSeen(call.pages, ids[b]))

\* C17: a second page repeated a card of the first page and a card of its
\* own before a new one
C17_Witness ==
    /\ call.op = "extract"
    /\ call.pages = << <<1, 2>>, <<2, 3>>, <<3, 1>> >>
    /\ call.out.ids = <<1, 2, 3>>
    /\ call.out.fetched = 3

\* C18: with total_items > 0 and k > 0 new ids on page 1, total_pages is
\* ceil(total_items / k); no page above total_pages is fetched, and only
\* page 1 when total_pages <= 1.  total_pages is not computed when k = 0
\* or no total is known.
C18_TotalPages ==
    (call.op = "extract" /\ call.fail_at # 1) =>
        LET k == Cardinality(Range(PageAt(call.pages, 1)))
            t == call.total_items
            tp == call.out.total_pages
        IN IF t > 0 /\ k > 0
           THEN /\ tp = (CHOOSE q \in 1..t : (q - 1) * k < t /\ t <= q * k)
                /\ call.out.fetched <= tp
                /\ tp <= 1 => call.out.fetched = 1
           ELSE tp = NoPages

\* C18: a total of 2 with 1 new id on page 1 gave 2 pages, and the third
\* served page was not fetched
C18_Witness ==
    /\ call.op = "extract"
    /\ call.pages = << <<1, 1>>, <<2>>, <<3>> >>
    /\ call.total_items = 2
    /\ call.fail_at = 0
    /\ call.out.total_pages = 2
    /\ call.out.fetched = 2

\* the positions of a collection job, in the order of the loop body: the
\* job is Discovering at "load" and "discover", FilteringPending at
\* "filter", Processing in the item loop; at "section" the job before is
\* Done and the next has not started
JobRank(p) ==
    CASE p = "section" -> 0
      [] p = "load" -> 1
      [] p = "discover" -> 2
      [] p = "filter" -> 3
      [] p \in ItemPcs -> 4
      [] OTHER -> 5

\* C19: while a run goes on, a job only moves forward through discovery,
\* the pending filter and the item loop; the next job is taken up only from
\* the head of the section loop, which is entered only with the job before
\* it done; discovery goes on to the filter only with ids and the filter to
\* the item loop only with pending ids, and an early exit from either has
\* processed no item and leaves the record files as they were.
C19_JobsMoveForward ==
    [][(pc # "idle" /\ pc' # "idle") =>
          /\ pc' = "section" => sec_idx' = sec_idx + 1
          /\ pc' # "section" =>
                /\ sec_idx' = sec_idx
                /\ JobRank(pc') >= JobRank(pc)
                /\ pc' = "load" => pc = "section"
          /\ (pc = "discover" /\ pc' = "filter") => listing_ids' # <<>>
          /\ (pc = "filter" /\ pc' \in ItemPcs) => pending_ids' # <<>>
          /\ (pc \in {"discover", "filter"} /\ pc' = "section") =>
                /\ processed = <<>>
                /\ progress_file' = progress_file
                /\ run_succ' = run_succ
      ]_vars

\* C19: the CLI left the first job from the pending filter with every id
\* already completed, and is processing the items of the second job
C19_Witness ==
    /\ mode = "cli"
    /\ sec_idx = 2
    /\ pc = "item"
    /\ sections_completed = 1
    /\ run_succ[1] = {}
    /\ DurableIds(progress_file[1]) # {}

\* C20: a GUI run in which a check of the stop flag during section
\* scraping found the flag set does not end with the report of a run that
\* completed its work: it is not shown through on_finished(True, ...).
C20_StoppedRunNotReportedCompleted ==
    (pc = "idle" /\ stop_seen) => (finished # NoReport /\ ~finished.success)

\* C21: once stop() has set the flag in a GUI run, no item is started, no
\* collection is started, only the save of the item that was in flight
\* goes on, and when the run is over the durable records hold every id they
\* held when the flag was set.
C21_StopHaltsAndKeepsRecord ==
    [][(StopFlagSet /\ pc \notin {"idle", "wait"}) =>
          /\ processed' = processed \/ processed' = <<>>
          /\ pc' # "load"
          /\ pc' \in {"save", "dump"} => stop_at.pc \in {"save", "dump"}
          /\ pc' = "idle" =>
                \A s \in Sections :
                    stop_at.durable[s] \subseteq DurableIds(progress_file'[s])
      ]_vars

\* C22: a malformed section URL fails only its own collection: a run that
\* is asked for with a well-formed URL in its batch is not refused, and a
\* run that ends has taken up every collection whose URL is well-formed,
\* those before and those after a malformed one.
C22_MalformedUrlFailsOnlyItself ==
    [][/\ (pc = "idle" /\ pc' = "idle" /\ run' = run + 1) =>
              \A s \in 1..total_sections : urls[s] # "valid"
       /\ (pc # "idle" /\ pc' = "idle") =>
              \A s \in 1..total_sections : urls[s] = "valid" => s \in began
      ]_vars

\* C23: when the CLI leaves a collection whose ids it has filtered, it
\* counts the collection as completed exactly when every discovered id is
\* in the completed_ids of the collection's progress record, whatever set
\* was loaded.
C23_CompletedIffAllDiscoveredDone ==
    [][(mode = "cli" /\ pc \in {"filter", "next"} /\ pc' = "section") =>
          ((sections_completed' = sections_completed + 1)
              <=> (Range(listing_ids) \subseteq progress.completed_ids))
      ]_vars

\* the indices of the pairs a download attempted, in order
AttemptedIndices(attempted) == [m \in 1..Len(attempted) |-> attempted[m][1]]

\* C24: a download attempts exactly the selected indices i with
\* 1 <= i <= n, each once and with the URL of the i-th image; the selected
\* indices above n are the ones reported as skipped, and the call returns;
\* with 6 images and the selection 1,3,4,5,8 it attempts 1,3,4,5 and skips 8.
C24_SelectedValidIndicesAttempted ==
    call.op = "download" =>
        LET n == call.n_images
            selected == IF call.selection = <<>> THEN 1..n ELSE Range(call.selection)
            att == call.out.attempted
        IN /\ Range(AttemptedIndices(att)) = {k \in selected : 1 <= k /\ k <= n}
           /\ NoDuplicates(AttemptedIndices(att))
           /\ \A m \in 1..Len(att) : att[m][2] = Images(n)[att[m][1]]
           /\ n > 0 => Range(call.out.skipped) = {k \in selected : k > n}
           /\ (n = 6 /\ call.selection = <<1, 3, 4, 5, 8>>) =>
                 /\ AttemptedIndices(att) = <<1, 3, 4, 5>>
                 /\ call.out.skipped = <<8>>

\* C24: the product with 6 images was downloaded with the selection
\* 1,3,4,5,8, and the fetch of image 3 failed
C24_Witness ==
    /\ call.op = "download"
    /\ call.n_images = 6
    /\ call.selection = <<1, 3, 4, 5, 8>>
    /\ call.fetch[3] = "http_error"
    /\ AttemptedIndices(call.out.attempted) = <<1, 3, 4, 5>>
    /\ call.out.skipped = <<8>>
    /\ call.out.downloaded = 3

\* C25: a failed fetch does not end the download of an item: every
\* selected valid image is attempted whatever the earlier fetches did, a
\* file is written for exactly the attempted images whose fetch succeeded,
\* and process_product returns True when at least one was written.
C25_FetchFailureDoesNotAbortItem ==
    (call.op = "process_product" /\ call.nav = "ok" /\ call.title # NoTitle) =>
        LET n == call.n_images
            selected == IF call.selection = <<>> THEN 1..n ELSE Range(call.selection)
            valid == {k \in selected : 1 <= k /\ k <= n}
            written == {k \in valid : call.fetch[k] = "ok"}
        IN /\ Range(AttemptedIndices(call.out.attempted)) = valid
           /\ {f.idx : f \in call.out.files} = written
           /\ call.out.downloaded = Cardinality(written)
           /\ call.out.ret <=> written # {}

\* C25: the fetch of the first image raised, the second image was written
\* and the item succeeded
C25_Witness ==
    /\ call.op = "process_product"
    /\ call.n_images = 2
    /\ call.selection = <<>>
    /\ call.fetch = <<"raise", "ok">>
    /\ AttemptedIndices(call.out.attempted) = <<1, 2>>
    /\ call.out.ret

\* C26: a save never takes an id out of the in-memory completed_ids; a
\* save of an id already there leaves completed_ids as it was and still
\* writes the record, with its ids and the time of the call as updated_at.
C26_SaveNeverShrinks ==
    [][call'.op = "save" =>
          /\ progress.completed_ids \subseteq progress'.completed_ids
          /\ call'.arg \in progress'.completed_ids
          /\ call'.arg \in progress.completed_ids =>
                /\ progress'.completed_ids = progress.completed_ids
                /\ progress_file'[1].kind = "record"
                /\ Range(progress_file'[1].completed_ids) = progress.completed_ids
                /\ progress_file'[1].updated_at = now
      ]_vars

\* C26: an id was saved a second time at a later time, and the record
\* carries the later updated_at with the same two ids
C26_Witness ==
    /\ call.op = "save"
    /\ call.prev_op = "tick"
    /\ progress.completed_ids = Ids
    /\ progress_file[1].kind = "record"
    /\ Range(progress_file[1].completed_ids) = Ids
    /\ progress_file[1].started_at = 1
    /\ progress_file[1].updated_at = MaxClock

\* C27: once a record of the directory has a started_at, every record
\* that replaces it, written by the same instance or by a later one that
\* has loaded the record or not, has the same started_at.
C27_StartedAtNeverChanges ==
    [][(progress_file[1].kind = "record" /\ progress_file'[1].kind = "record") =>
          progress_file'[1].started_at = progress_file[1].started_at
      ]_vars

\* C28: with a clock that never goes back, every record save has written
\* has updated_at >= started_at, also after a load of an earlier record.
C28_UpdatedNotBeforeStarted ==
    progress_file[1].kind = "record" =>
        progress_file[1].updated_at >= progress_file[1].started_at

\* C28: an instance that loaded a record started earlier has saved at a
\* later time
C28_Witness ==
    /\ call.op = "save"
    /\ call.loaded
    /\ progress_file[1].kind = "record"
    /\ progress_file[1].started_at = 1
    /\ progress_file[1].updated_at = MaxClock

\* C29: after clear(), whether or not a file existed, no record file
\* exists and the instance is empty: no completed id, total_found 0 and
\* started_at unset.
C29_ClearEmptiesAll ==
    [][call'.op = "clear" =>
          /\ progress_file'[1] = Absent
          /\ CompletedCount(progress') = 0
          /\ progress'.total_found = 0
          /\ progress'.started_at = NoTime
      ]_vars

\* C30: set_total_found(n) sets total_found to n and leaves completed_ids,
\* started_at and the record file as they were; a save writes the
\* instance's total_found into the record, so that n is in the record of
\* the next save.
C30_SetTotalFoundFrame ==
    [][/\ call'.op = "set_total_found" =>
              /\ progress'.total_found = call'.arg
              /\ progress'.completed_ids = progress.completed_ids
              /\ progress'.started_at = progress.started_at
              /\ progress_file' = progress_file
       /\ call'.op = "save" =>
              /\ progress_file'[1].total_found = progress.total_found
              /\ call.op = "set_total_found" =>
                    progress_file'[1].total_found = call.arg
      ]_vars

\* C30: an instance with a completed id was given a total, and the record
\* of the save that followed carries it
C30_Witness ==
    /\ call.op = "save"
    /\ call.prev_op = "set_total_found"
    /\ call.prev_arg = MaxTotal
    /\ progress_file[1].kind = "record"
    /\ progress_file[1].total_found = MaxTotal
    /\ Cardinality(progress.completed_ids) = 2

\* C31: load() on a fresh ScrapeProgress returns the empty set, without
\* raising, when the directory holds no record file; when it holds a
\* record written by save, it returns exactly the set the last save held as
\* it wrote (save, then load on a new instance, gives the set back).
\* (An unreadable file is C6's case: load raises.)
C31_LoadRoundTrips ==
    [][(call.op = "new" /\ call'.op \in {"load", "load_raised"})
        => /\ progress_file[1].kind = "absent"
                => call'.op = "load" /\ call'.ret = {} /\ progress' = NewProgress
           /\ progress_file[1].kind = "record"
                => /\ call'.op = "load"
                   /\ call'.ret = call.saved
                   /\ call'.ret = Range(progress_file[1].completed_ids)
                   /\ progress'.completed_ids = call.saved]_vars

\* both ids were saved and a new instance has loaded them back
C31_Witness ==
    /\ call.op = "load" /\ call.prev_op = "new"
    /\ progress_file[1].kind = "record"
    /\ call.ret = Ids /\ call.saved = Ids

\* C32: a collection whose discovery returns no ids is nothing to process:
\* the loop goes straight on to the next collection; no item is processed,
\* the progress records stay as they are, and no counter of the run
\* (success, failure, skipped, completed collections) moves.
C32_EmptyDiscoveryIsSkipped ==
    [][(pc = "discover" /\ pc' = "section")
        => /\ sec_idx' = sec_idx + 1
           /\ processed = <<>> /\ processed' = <<>> /\ failed' = <<>>
           /\ progress_file' = progress_file
           /\ total_fail' = total_fail /\ total_success' = total_success
           /\ total_skipped' = total_skipped
           /\ sections_completed' = sections_completed]_vars

\* the first collection of a first run has been left with no record, no
\* success and no failure: its discovery returned nothing, and the loop
\* stands at the head of the second collection
C32_Witness ==
    /\ run = 1 /\ pc = "section" /\ sec_idx = 2 /\ total_sections = 2
    /\ began = {1}
    /\ progress_file[1].kind = "absent"
    /\ total_success = 0 /\ total_fail = 0 /\ sections_completed = 0

\* the failure counter of the front end: process_all_products' fail_count
\* in the CLI, _scrape_sections' total_fail in the GUI
FailCounter == IF mode = "cli" THEN fail_count ELSE total_fail

\* the success counter of the front end
SuccessCounter == IF mode = "cli" THEN success_count ELSE total_success

\* C33: an item whose navigation or extraction raises, or whose page gives
\* no record or no title, is one Failure of that item and nothing more:
\* process_product returns False (nothing escapes it), the failure counter
\* grows by one, the success counter and the progress record stay, and
\* the loop goes on to the next item (to the end of the collection after
\* the last one).
C33_ItemFailureIsContained ==
    [][/\ (pc = "item" /\ pc' # "item")
          => /\ pc' \in {"save", "next"}
             /\ call'.op = "item" /\ call'.listing_id = pending_ids[i]
             /\ (call'.nav = "raise" \/ call'.title = NoTitle)
                   => /\ ~call'.ret
                      /\ pc' = "next"
                      /\ FailCounter' = FailCounter + 1
                      /\ SuccessCounter' = SuccessCounter
                      /\ failed' = Append(failed, pending_ids[i])
                      /\ progress_file' = progress_file
                      /\ progress' = progress
                      /\ name_counts' = name_counts
       /\ (pc = "next" /\ pc' # "next")
          => IF i < Len(pending_ids)
             THEN pc' = "item" /\ i' = i + 1 /\ UNCHANGED <<pending_ids, sec_idx>>
             ELSE pc' = "section" /\ sec_idx' = sec_idx + 1]_vars

\* the first of two pending items failed on navigation, the loop went on,
\* and the second has been processed with success
C33_Witness ==
    /\ pc = "save" /\ i = 2 /\ Len(pending_ids) = 2
    /\ failed = <<pending_ids[1]>>
    /\ FailCounter = 1 /\ SuccessCounter = 1
    /\ call.op = "item" /\ call.ret

\* C34: a run with --clear-progress deletes exactly the records under the
\* output root whose section_id is one of those requested; every other
\* record, every directory and all image files stay as they were, and the
\* run ends where it started: no browser, no item processed.
C34_ClearProgressDeletesExactlyRequested ==
    [][call'.op = "clear_progress" /\ <<call, output_root>>' # <<call, output_root>>
        => /\ \A d \in DirNames :
                 /\ output_root'[d].exists = output_root[d].exists
                 /\ output_root'[d].images = output_root[d].images
                 /\ output_root'[d].record =
                       IF output_root[d].record \in call'.requested
                       THEN "none" ELSE output_root[d].record
           /\ pc' = "idle" /\ pc = "idle" /\ processed' = <<>>
           /\ progress_file' = progress_file]_vars

\* a clearing for section "1" has removed its record and left the record
\* of section "2", an unreadable file and the images of both in place
C34_Witness ==
    /\ call.op = "clear_progress" /\ call.requested = {"1"}
    /\ \E d \in DirNames : output_root[d].record = "2" /\ output_root[d].images
    /\ \E d \in DirNames : output_root[d].record = "unreadable"
    /\ \E d \in DirNames : output_root[d].exists /\ output_root[d].record = "none"
                              /\ output_root[d].images

\* C37: a CLI job for section X never loads from, and never writes over, a
\* .progress.json whose recorded section_id is another section's.
C37_JobKeepsToItsOwnRecord ==
    [][call'.op = "job"
        => /\ call'.loaded \in {"none", call'.section_id}
           /\ call'.wrote_over \in {"none", "unreadable", call'.section_id}]_vars

\* the workers whose thread is between start_worker and the posting of
\* its on_finished
Driving == {k \in Workers : gui.w[k] \in {"launch", "wait", "scrape"}}

\* C35: in the GUI at most one worker drives the browser at any time: a
\* worker is started only when every earlier worker's on_finished has run,
\* and no worker issues a browser operation once it has posted its
\* on_finished.  (The chrome_process.terminate() of _run's finally clause
\* ends the worker's own Chrome process and is not an operation on the
\* session.)
C35_OneWorkerDrivesBrowser ==
    /\ Cardinality(Driving) <= 1
    /\ gui.late = {}
    /\ \A k \in Workers :
          (gui.w[k] # "none" /\ k # gui.worker) => k \in gui.executed
    /\ \A k \in Driving : k = gui.worker /\ gui.start_btn = "disabled"

\* a second worker drives the browser after the first has ended and its
\* on_finished has run
C35_Witness ==
    /\ gui.worker = 2 /\ gui.w[2] = "scrape" /\ gui.ops[2] > 0
    /\ gui.w[1] = "ended" /\ gui.ops[1] > 0 /\ 1 \in gui.executed

\* C36: in the CLI, when process_all_products has returned for a
\* collection, its success and failure counts add up to the number of
\* pending ids; with the ids skipped as already completed they add up to
\* the number of discovered ids; and the skipped ids are the discovered
\* ids that were in the set load returned.
C36_CountsAddUp ==
    (mode = "cli" /\ pc = "next" /\ i = Len(pending_ids))
        => /\ success_count + fail_count = Len(pending_ids)
           /\ success_count + fail_count + total_skipped = Len(listing_ids)
           /\ total_skipped =
                 Cardinality({k \in 1..Len(listing_ids) : listing_ids[k] \in hist.loaded})
           /\ Len(processed) = Len(pending_ids)

\* a resumed run has skipped one of two discovered ids and has processed
\* the other
C36_Witness ==
    /\ mode = "cli" /\ pc = "next" /\ i = Len(pending_ids)
    /\ total_skipped = 1 /\ Len(listing_ids) = 2
    /\ success_count + fail_count = 1

\* the ids the collaborator serves in a call, on any page
ServedIds(pages) == UNION {Range(pages[n]) : n \in 1..Len(pages)}

\* C38: extract_product_links stops on every collaborator that serves its
\* ids from a finite set, with or without a known total: every page
\* fetched but the last one has added an id not seen before, so at most
\* |ids| + 1 pages are fetched, however many pages the collaborator
\* would go on serving.
C38_DiscoveryTerminates ==
    call.op = "extract" =>
        /\ call.out.fetched >= 1
        /\ call.out.fetched <= Cardinality(ServedIds(call.pages)) + 1
        /\ Len(call.out.ids) >= call.out.fetched - 1
        /\ \A n \in 1..(call.out.fetched - 1) :
              ~(Range(PageAt(call.pages, n)) \subseteq IdsUpTo(call.pages, n - 1))

\* a collaborator that keeps serving the same card: the second page adds
\* nothing and the third is never fetched, the total unknown
C38_Witness ==
    /\ call.op = "extract"
    /\ call.pages = << <<1>>, <<1>>, <<1>> >>
    /\ call.total_items = 0 /\ call.fail_at = 0
    /\ call.out.fetched = 2

\* C39: a load() that raises leaves completed_ids, total_found and
\* started_at of the instance as they were, for each kind of unreadable
\* record: invalid JSON, JSON that is not an object, and a completed_ids
\* field set() cannot take.
C39_FailedLoadLeavesMemory ==
    call.op = "load" =>
        /\ call.out.raised => call.out.p = call.before
        /\ call.file.kind \in {"torn", "nonobject", "badids"} => call.out.raised

\* an instance that already held an id, a total and a start time met a
\* record whose completed_ids is not a list
C39_Witness ==
    /\ call.op = "load"
    /\ call.file = BadIds
    /\ call.before = ProgressOf({1}, 1, 1)
    /\ call.out.raised
    /\ call.out.p = call.before

\* C40: in the CLI, between two consecutive items of a collection the loop
\* sleeps for at least the floor of 1.0 second, whatever --delay and the
\* jitter are; after the last item of the collection it does not sleep.
C40_DelayBetweenItemsOnly ==
    [][(mode = "cli" /\ pc = "next" /\ pc' # "next")
        => IF i < Len(pending_ids)
           THEN /\ pc' = "item"
                /\ call'.slept >= MinWait
                /\ call'.slept >= call'.asked
                /\ call'.slept \in {MinWait, call'.asked}
           ELSE call' = call /\ call.slept = 0]_vars

\* the loop was asked for less than a second between the first item and
\* the second, and slept the floor
C40_Witness ==
    /\ mode = "cli" /\ pc = "item" /\ i = 2
    /\ call.op = "item" /\ call.listing_id = pending_ids[1]
    /\ call.asked < MinWait /\ call.slept = MinWait

====
